---- MODULE Spec2Model ----
(***************************************************************************)
(* supazod: flattening of a nested Database type declaration into named    *)
(* type declarations, the rewriting of the cross references between them,  *)
(* and the naming of the declarations and of their validators.             *)
(*                                                                         *)
(* Text is a sequence of characters; a character is a one-character        *)
(* string.  A name is a text.                                              *)
(***************************************************************************)
EXTENDS Integers, Sequences, FiniteSets, TLC

VARIABLES
    name,                \* toSchemaVariableName: the name given
    preserve,            \* toSchemaVariableName: preserveSeparators
    derived,             \* the results of the successive derivations
    sourceText,          \* generateContent: the input file
    requested,           \* opts.schema as the caller gave it
    opts,                \* the options, opts.schema as generateContent updates it
    pc,                  \* the position of generateContent and supabaseToZod
    loopIndex,           \* the position of the loop over opts.schema
    parsedTypes,         \* the accumulated flattened text
    schemaNameMappings,  \* the mappings the collector callback pushed
    flattened,           \* what each call of collectTypes returned
    generated,           \* the validator generator has been called
    schemaNameOverrides, \* the result of buildSchemaNameOverrides
    errors,              \* the errors the validator generator returned
    error,               \* the message of the error thrown
    written,             \* the files written
    givenMappings,       \* buildSchemaNameOverrides: the mappings given
    mappingIndex,        \* the position of its loop
    overrides,           \* its Map and the conflicts it has logged
    template,            \* formatName: the pattern given
    placeholderMap,      \* formatName: the entries of the placeholders given
    formatConfig,        \* formatName: the configuration given
    nameFormatted,       \* formatName: the values substituted and the result
    content,             \* the validator source the generator returned
    typesContent,        \* the type-inference source the generator returned
    contentOverrides,    \* applySchemaNameOverrides: the entries of the Map given
    applyPc,             \* the position of generateContent after the generator
    applied,             \* the sources with the overrides applied
    buffer,              \* detectFileEncoding: the bytes read from the file
    encoding,            \* detectFileEncoding: what it returned
    configPathOverride,  \* loadConfig: the path given, where one is given
    existingFiles,       \* the paths existsSync answers true for
    configPc,            \* the position of loadConfig
    configPath,          \* the path given to loadConfigFromPath
    loadedConfig,        \* what loadConfig returned or threw
    typeMappings,        \* the mappings generateContent names the types from
    typesPc,             \* the position of generateContent over the types
    inferredTypes        \* the lines of the type-inference source

namingVars == <<name, preserve, derived>>

runVars ==
    <<sourceText, requested, opts, pc, loopIndex, parsedTypes,
      schemaNameMappings, flattened, generated, schemaNameOverrides, errors,
      error, written>>

overrideVars == <<givenMappings, mappingIndex, overrides>>

formatVars == <<template, placeholderMap, formatConfig, nameFormatted>>

\* the variables of the specifications after the first three
applyVars == <<content, typesContent, contentOverrides, applyPc, applied>>

encodingVars == <<buffer, encoding>>

configVars ==
    <<configPathOverride, existingFiles, configPc, configPath, loadedConfig>>

typeNameVars == <<typeMappings, typesPc, inferredTypes>>

ioVars == <<encodingVars, configVars, typeNameVars>>

laterVars == <<formatVars, applyVars, ioVars>>

vars == <<namingVars, runVars, overrideVars, laterVars>>

(***************************************************************************)
(* Characters and strings (String.prototype of the JavaScript runtime).    *)
(***************************************************************************)
LowerChars ==
    <<"a","b","c","d","e","f","g","h","i","j","k","l","m",
      "n","o","p","q","r","s","t","u","v","w","x","y","z">>

UpperChars ==
    <<"A","B","C","D","E","F","G","H","I","J","K","L","M",
      "N","O","P","Q","R","S","T","U","V","W","X","Y","Z">>

DigitChars == {"0","1","2","3","4","5","6","7","8","9"}

LowerSet == {LowerChars[i] : i \in DOMAIN LowerChars}

UpperSet == {UpperChars[i] : i \in DOMAIN UpperChars}

IsAlnum(c) == c \in LowerSet \cup UpperSet \cup DigitChars

toUpperCaseChar(c) ==
    IF c \in LowerSet
    THEN UpperChars[CHOOSE i \in DOMAIN LowerChars : LowerChars[i] = c]
    ELSE c

toLowerCaseChar(c) ==
    IF c \in UpperSet
    THEN LowerChars[CHOOSE i \in DOMAIN UpperChars : UpperChars[i] = c]
    ELSE c

\* an array: the sequence with its elements evaluated
Array(f) == f \o <<>>

toUpperCase(s) == Array([i \in DOMAIN s |-> toUpperCaseChar(s[i])])

toLowerCase(s) == Array([i \in DOMAIN s |-> toLowerCaseChar(s[i])])

slice1(s) == IF Len(s) <= 1 THEN <<>> ELSE SubSeq(s, 2, Len(s))

charAt0(s) == IF Len(s) = 0 THEN <<>> ELSE <<s[1]>>

endsWith(s, suffix) ==
    /\ Len(suffix) <= Len(s)
    /\ SubSeq(s, Len(s) - Len(suffix) + 1, Len(s)) = suffix

startsWithAt(s, i, p) ==
    /\ i + Len(p) - 1 <= Len(s)
    /\ \A k \in 1..Len(p) : s[i + k - 1] = p[k]

includes(s, p) == \E i \in 1..(Len(s) + 1) : startsWithAt(s, i, p)

RECURSIVE replaceAllFrom(_, _, _, _)
replaceAllFrom(s, i, p, r) ==
    IF i > Len(s) THEN <<>>
    ELSE IF Len(p) > 0 /\ startsWithAt(s, i, p)
         THEN r \o replaceAllFrom(s, i + Len(p), p, r)
         ELSE <<s[i]>> \o replaceAllFrom(s, i + 1, p, r)

\* s.replace(new RegExp(escaped p, 'g'), r); an empty p matches between the
\* characters and at both ends.
RECURSIVE interleave(_, _, _)
interleave(s, i, r) ==
    IF i > Len(s) THEN r ELSE r \o <<s[i]>> \o interleave(s, i + 1, r)

\* the replacement string of String.prototype.replace: $$ stands for $ and
\* $& for the text matched ($1.. stand for themselves where the pattern has
\* no group)
RECURSIVE expandReplacement(_, _, _)
expandReplacement(r, i, matched) ==
    IF i > Len(r) THEN <<>>
    ELSE IF r[i] = "$" /\ i < Len(r) /\ r[i + 1] = "$"
         THEN <<"$">> \o expandReplacement(r, i + 2, matched)
    ELSE IF r[i] = "$" /\ i < Len(r) /\ r[i + 1] = "&"
         THEN matched \o expandReplacement(r, i + 2, matched)
    ELSE <<r[i]>> \o expandReplacement(r, i + 1, matched)

\* every match of p replaced by the text r
replaceAll(s, p, r) ==
    IF Len(p) = 0 THEN interleave(s, 1, r) ELSE replaceAllFrom(s, 1, p, r)

RECURSIVE joinParts(_)
joinParts(parts) ==
    IF parts = <<>> THEN <<>> ELSE Head(parts) \o joinParts(Tail(parts))

\* s.split(c) for a one-character separator c
RECURSIVE splitChar(_, _, _, _)
splitChar(s, i, c, cur) ==
    IF i > Len(s) THEN <<cur>>
    ELSE IF s[i] = c
         THEN <<cur>> \o splitChar(s, i + 1, c, <<>>)
         ELSE splitChar(s, i + 1, c, Append(cur, s[i]))

\* s.split(/[^A-Za-z0-9]+/): a run of separators splits once
RECURSIVE splitNonAlnum(_, _, _, _)
splitNonAlnum(s, i, cur, prevSep) ==
    IF i > Len(s) THEN <<cur>>
    ELSE IF ~IsAlnum(s[i])
         THEN IF prevSep
              THEN splitNonAlnum(s, i + 1, cur, TRUE)
              ELSE <<cur>> \o splitNonAlnum(s, i + 1, <<>>, TRUE)
         ELSE splitNonAlnum(s, i + 1, Append(cur, s[i]), FALSE)

RECURSIVE filterNonEmpty(_)
filterNonEmpty(parts) ==
    IF parts = <<>> THEN <<>>
    ELSE IF Head(parts) = <<>>
         THEN filterNonEmpty(Tail(parts))
         ELSE <<Head(parts)>> \o filterNonEmpty(Tail(parts))

SchemaSuffix == <<"S","c","h","e","m","a">>

(***************************************************************************)
(* naming-config.ts: toCamelCase, toSchemaVariableName                     *)
(***************************************************************************)
capitalizePart(part) == toUpperCase(charAt0(part)) \o toLowerCase(slice1(part))

\* the value not split on underscores
capitalizeWhole(input) == capitalizePart(input)

toCamelCase(input) ==
    IF \E i \in DOMAIN input : input[i] = "_"
    THEN LET parts == splitChar(input, 1, "_", <<>>)
         IN  joinParts(Array([i \in DOMAIN parts |-> capitalizePart(parts[i])]))
    ELSE capitalizePart(input)

\* .replace(/([a-z0-9])([A-Z])/g, '$1_$2')
RECURSIVE insertCaseBoundaries(_, _)
insertCaseBoundaries(s, i) ==
    IF i > Len(s) THEN <<>>
    ELSE IF /\ i < Len(s)
            /\ s[i] \in LowerSet \cup DigitChars
            /\ s[i + 1] \in UpperSet
         THEN <<s[i], "_", s[i + 1]>> \o insertCaseBoundaries(s, i + 2)
         ELSE <<s[i]>> \o insertCaseBoundaries(s, i + 1)

\* .replace(/[^A-Za-z0-9]+/g, '_')
RECURSIVE collapseNonAlnum(_, _)
collapseNonAlnum(s, i) ==
    IF i > Len(s) THEN <<>>
    ELSE IF IsAlnum(s[i]) THEN <<s[i]>> \o collapseNonAlnum(s, i + 1)
         ELSE IF i > 1 /\ ~IsAlnum(s[i - 1])
              THEN collapseNonAlnum(s, i + 1)
              ELSE <<"_">> \o collapseNonAlnum(s, i + 1)

\* .replace(/_{2,}/g, '_')
RECURSIVE collapseUnderscores(_, _)
collapseUnderscores(s, i) ==
    IF i > Len(s) THEN <<>>
    ELSE IF s[i] = "_" /\ i > 1 /\ s[i - 1] = "_"
         THEN collapseUnderscores(s, i + 1)
         ELSE <<s[i]>> \o collapseUnderscores(s, i + 1)

\* .replace(/^_+|_+$/g, '')
RECURSIVE trimUnderscores(_)
trimUnderscores(s) ==
    IF s = <<>> THEN s
    ELSE IF Head(s) = "_" THEN trimUnderscores(Tail(s))
    ELSE IF s[Len(s)] = "_" THEN trimUnderscores(SubSeq(s, 1, Len(s) - 1))
    ELSE s

toSchemaVariableNameDefault(n) ==
    LET parts == filterNonEmpty(splitNonAlnum(n, 1, <<>>, FALSE))
        pascalCase ==
            joinParts(Array([i \in DOMAIN parts |->
                toUpperCase(charAt0(parts[i])) \o slice1(parts[i])]))
        camelCase == toLowerCase(charAt0(pascalCase)) \o slice1(pascalCase)
    IN  IF parts = <<>> \/ pascalCase = <<>>
        THEN IF endsWith(n, SchemaSuffix) THEN n ELSE n \o SchemaSuffix
        ELSE IF endsWith(camelCase, SchemaSuffix)
             THEN camelCase
             ELSE camelCase \o SchemaSuffix

toSchemaVariableNamePreserve(n) ==
    LET normalized ==
            toLowerCase(trimUnderscores(collapseUnderscores(
                collapseNonAlnum(insertCaseBoundaries(n, 1), 1), 1)))
    IN  IF normalized = <<>> THEN toLowerCase(SchemaSuffix)
        ELSE IF endsWith(normalized, toLowerCase(SchemaSuffix))
             THEN normalized
             ELSE normalized \o <<"_">> \o toLowerCase(SchemaSuffix)

toSchemaVariableName(n, preserveSeparators) ==
    IF preserveSeparators
    THEN toSchemaVariableNamePreserve(n)
    ELSE toSchemaVariableNameDefault(n)

(***************************************************************************)
(* naming-config.ts: formatName and the default configuration.  A pattern  *)
(* is a text with {key} placeholders; the placeholders are given in the    *)
(* order of the object literal the caller writes.                          *)
(***************************************************************************)
KeySchema == <<"s","c","h","e","m","a">>

KeyTable == <<"t","a","b","l","e">>

KeyOperation == <<"o","p","e","r","a","t","i","o","n">>

KeyFunction == <<"f","u","n","c","t","i","o","n">>

KeyName == <<"n","a","m","e">>

Placeholder(key) == <<"{">> \o key \o <<"}">>

ArgsText == <<"A","r","g","s">>

ReturnsText == <<"R","e","t","u","r","n","s">>

defaultNamingConfig ==
    [ tableOperationPattern |->
        Placeholder(KeySchema) \o Placeholder(KeyTable) \o Placeholder(KeyOperation),
      tableSchemaPattern |->
        Placeholder(KeySchema) \o Placeholder(KeyTable) \o Placeholder(KeyOperation),
      enumPattern |-> Placeholder(KeySchema) \o Placeholder(KeyName),
      enumSchemaPattern |-> Placeholder(KeySchema) \o Placeholder(KeyName),
      compositeTypePattern |-> Placeholder(KeySchema) \o Placeholder(KeyName),
      compositeTypeSchemaPattern |-> Placeholder(KeySchema) \o Placeholder(KeyName),
      functionArgsPattern |->
        Placeholder(KeySchema) \o Placeholder(KeyFunction) \o ArgsText,
      functionArgsSchemaPattern |->
        Placeholder(KeySchema) \o Placeholder(KeyFunction) \o ArgsText,
      functionReturnsPattern |->
        Placeholder(KeySchema) \o Placeholder(KeyFunction) \o ReturnsText,
      functionReturnsSchemaPattern |->
        Placeholder(KeySchema) \o Placeholder(KeyFunction) \o ReturnsText,
      capitalizeSchema |-> TRUE,
      capitalizeNames |-> TRUE,
      separator |-> <<>> ]

formatValue(key, value, config) ==
    IF key = KeySchema /\ config.capitalizeSchema THEN toCamelCase(value)
    ELSE IF key # KeySchema /\ config.capitalizeNames THEN toCamelCase(value)
    ELSE value

RECURSIVE formatNameFrom(_, _, _, _)
formatNameFrom(result, placeholders, i, config) ==
    IF i > Len(placeholders) THEN result
    ELSE formatNameFrom(
            replaceAll(result, Placeholder(placeholders[i].key),
                       expandReplacement(
                           formatValue(placeholders[i].key, placeholders[i].value,
                                       config),
                           1, Placeholder(placeholders[i].key))),
            placeholders, i + 1, config)

formatName(pattern, placeholders, config) ==
    formatNameFrom(pattern, placeholders, 1, config)

\* formattedValue in each iteration of the loop of formatName
formattedValues(placeholders, config) ==
    Array([i \in DOMAIN placeholders |->
             formatValue(placeholders[i].key, placeholders[i].value, config)])

tablePlaceholders(schema, table, operation) ==
    << [key |-> KeySchema, value |-> schema],
       [key |-> KeyTable, value |-> table],
       [key |-> KeyOperation, value |-> operation] >>

namePlaceholders(schema, n) ==
    << [key |-> KeySchema, value |-> schema], [key |-> KeyName, value |-> n] >>

functionPlaceholders(schema, function) ==
    << [key |-> KeySchema, value |-> schema],
       [key |-> KeyFunction, value |-> function] >>

(***************************************************************************)
(* The source text and the flattened text.  A text is a sequence of lines; *)
(* a line is a sequence of tokens: the characters of identifiers, the      *)
(* fixed pieces of syntax, string literals, and the nested lookup paths    *)
(* Database[schema][category][name], each with the quote it is written in. *)
(***************************************************************************)
DQ == "double"

SQ == "single"

Ch(c) == [t |-> "ch", c |-> c]

Kw(w) == [t |-> "kw", c |-> w]

StrTok(q, v) == [t |-> "str", q |-> q, v |-> v]

RefTok(q, schema, cat, n, op) ==
    [t |-> "ref", q |-> q, schema |-> schema, cat |-> cat, name |-> n, op |-> op]

Ident(nm) == Array([i \in DOMAIN nm |-> Ch(nm[i])])

KeyTables == <<"T","a","b","l","e","s">>

KeyViews == <<"V","i","e","w","s">>

KeyEnums == <<"E","n","u","m","s">>

KeyCompositeTypes == <<"C","o","m","p","o","s","i","t","e","T","y","p","e","s">>

KeyFunctions == <<"F","u","n","c","t","i","o","n","s">>

\* the type nodes of the syntax tree
TypeNode(kind, toks, props, elements) ==
    [kind |-> kind, toks |-> toks, props |-> props, elements |-> elements]

StringType == TypeNode("StringKeyword", <<Kw("string")>>, <<>>, 0)

BooleanType == TypeNode("BooleanKeyword", <<Kw("boolean")>>, <<>>, 0)

EmptyTupleType == TypeNode("TupleType", <<Kw("[]")>>, <<>>, 0)

PairTupleType == TypeNode("TupleType", <<Kw("[string, string]")>>, <<>>, 2)

UnknownArrayType == TypeNode("ArrayType", <<Kw("unknown[]")>>, <<>>, 0)

NoPropertiesType ==
    TypeNode("TypeReference", <<Kw("Record<PropertyKey, never>")>>, <<>>, 0)

EnumRefType(q, schema, n) ==
    TypeNode("IndexedAccessType", <<RefTok(q, schema, KeyEnums, n, <<>>)>>, <<>>, 0)

UnionType(a, b) ==
    TypeNode("UnionType", a.toks \o <<Kw(" | ")>> \o b.toks, <<>>, 0)

LiteralUnionType(q) ==
    TypeNode("UnionType",
             <<StrTok(q, <<"p">>), Kw(" | "), StrTok(q, <<"q">>)>>, <<>>, 0)

TypeLiteral(props) == TypeNode("TypeLiteral", <<>>, props, 0)

Property(n, type) == [name |-> n, type |-> type]

\* get-node-name.ts: the name a property signature is declared with
getNodeName(node) == node.name

\* node.getText(sourceFile), in the layout the printer of collectTypes gives
getText(node) ==
    IF node.kind = "TypeLiteral"
    THEN IF node.props = <<>>
         THEN << <<Kw("{}")>> >>
         ELSE << <<Kw("{")>> >>
              \o Array([i \in DOMAIN node.props |->
                    Ident(node.props[i].name) \o <<Kw(": ")>>
                    \o node.props[i].type.toks \o <<Kw(";")>>])
              \o << <<Kw("}")>> >>
    ELSE << node.toks >>

\* a + b for two texts: the last line of a runs on into the first line of b
concatText(a, b) ==
    SubSeq(a, 1, Len(a) - 1) \o << a[Len(a)] \o b[1] >> \o SubSeq(b, 2, Len(b))

EmptyText == << <<>> >>

appendToLastLine(text, toks) == concatText(text, << toks >>)

\* `export type ${formattedName} = ${typeText}` and the same with a final ';'
typeString(formattedName, typeText) ==
    concatText(<< <<Kw("export type ")>> \o Ident(formattedName) \o <<Kw(" = ")>> >>,
               typeText)

\* strings.join(';\n')
RECURSIVE joinSemicolonNewline(_)
joinSemicolonNewline(strings) ==
    IF strings = <<>> THEN EmptyText
    ELSE IF Len(strings) = 1 THEN strings[1]
    ELSE appendToLastLine(strings[1], <<Kw(";")>>)
         \o joinSemicolonNewline(Tail(strings))

(***************************************************************************)
(* transform-types.ts: the flattening engine.  The source file is          *)
(* [root, json, schemas]: the kind of the declaration named Database, the  *)
(* presence of the Json alias before it, and the schema properties of the  *)
(* root in source order.  A schema is [name, members], a member is         *)
(* [key, entries]; an entry of Tables or Views is [name, ops], one of      *)
(* Functions is [name, members], one of Enums or CompositeTypes is         *)
(* [name, type].                                                           *)
(***************************************************************************)
EmptyCollector ==
    [typeStrings |-> <<>>, enumNames |-> <<>>, compositeTypeNames |-> <<>>,
     mappings |-> <<>>]

mergeCollected(a, b) ==
    [typeStrings |-> a.typeStrings \o b.typeStrings,
     enumNames |-> a.enumNames \o b.enumNames,
     compositeTypeNames |-> a.compositeTypeNames \o b.compositeTypeNames,
     mappings |-> a.mappings \o b.mappings]

\* the effect of a forEachChild whose callback pushes to the collector
RECURSIVE forEachCollected(_)
forEachCollected(cs) ==
    IF cs = <<>> THEN EmptyCollector
    ELSE mergeCollected(Head(cs), forEachCollected(Tail(cs)))

\* one pushed type string; category and origin record where it comes from
Declared(text, category, origin) ==
    [text |-> text, category |-> category, origin |-> origin]

collectSchemaName(context, pattern, placeholders, typeName) ==
    IF ~context.schemaNameCollector THEN <<>>
    ELSE LET formatted == formatName(pattern, placeholders, context.namingConfig)
             preserveSeparators == \E i \in DOMAIN formatted : ~IsAlnum(formatted[i])
         IN  << [typeName |-> typeName,
                 schemaName |-> toSchemaVariableName(formatted, preserveSeparators)] >>

typeTokens(type) ==
    {type.toks[i] : i \in DOMAIN type.toks}
    \cup UNION { {type.props[i].type.toks[j] : j \in DOMAIN type.props[i].type.toks}
                 : i \in DOMAIN type.props }

entryTypes(member, entry) ==
    IF member.key \in {KeyTables, KeyViews}
    THEN {entry.ops[i].type : i \in DOMAIN entry.ops}
    ELSE IF member.key = KeyFunctions
         THEN {entry.members[i].type : i \in DOMAIN entry.members}
         ELSE {entry.type}

\* MergeDeep<A, B> or MergeDeepStrict<A, B>
isMergeDeepReference(sourceFile) ==
    sourceFile.root \in {"MergeDeep", "MergeDeepStrict"}

\* the schema properties written anywhere in the file: those of the root
\* declaration and, where the root is MergeDeep<A, B>, those of the type
\* arguments and of the other type aliases
schemaPropertiesOf(sourceFile) ==
    IF isMergeDeepReference(sourceFile)
    THEN joinParts(Array([i \in DOMAIN sourceFile.typeArguments |->
                            sourceFile.typeArguments[i].schemas]))
         \o joinParts(Array([i \in DOMAIN sourceFile.aliases |->
                               sourceFile.aliases[i].type.schemas]))
    ELSE sourceFile.schemas

\* the tokens of the types of the property signatures of the file: a schema
\* property's type is its whole body
propertyTypeTokens(sourceFile) ==
    LET schemas == schemaPropertiesOf(sourceFile)
    IN  UNION { UNION { UNION { UNION { typeTokens(ty) :
                    ty \in entryTypes(schemas[s].members[m],
                                      schemas[s].members[m].entries[e]) }
                : e \in DOMAIN schemas[s].members[m].entries }
            : m \in DOMAIN schemas[s].members }
        : s \in DOMAIN schemas }

isTypeReferenced(sourceFile, schema, typeName) ==
    \E tok \in propertyTypeTokens(sourceFile) :
        /\ tok.t = "ref"
        /\ tok.schema = schema
        /\ tok.cat = KeyEnums
        /\ tok.name = typeName

processTableOperation(op, tableName, context) ==
    LET operation == getNodeName(op)
        formattedName ==
            formatName(context.namingConfig.tableOperationPattern,
                       tablePlaceholders(context.schema, tableName, operation),
                       context.namingConfig)
    IN  IF operation = <<>> THEN EmptyCollector
        ELSE IF op.type.kind \in {"TypeLiteral", "TupleType"}
        THEN [EmptyCollector EXCEPT
                !.typeStrings =
                    << Declared(typeString(formattedName, getText(op.type)),
                                "TableOperation", context.schema) >>,
                !.mappings =
                    collectSchemaName(context, context.namingConfig.tableSchemaPattern,
                        tablePlaceholders(context.schema, tableName, operation),
                        formattedName)]
        ELSE EmptyCollector

processTableOperations(table, tableName, context) ==
    forEachCollected(Array([i \in DOMAIN table.ops |->
        processTableOperation(table.ops[i], tableName, context)]))

processTablesOrViews(member, context) ==
    forEachCollected(Array([i \in DOMAIN member.entries |->
        processTableOperations(member.entries[i],
                               getNodeName(member.entries[i]), context)]))

\* an enum entry of schema `origin`, pushed when `wanted`
collectEnum(enumNode, origin, wanted, context) ==
    LET enumName == getNodeName(enumNode)
        formattedName ==
            formatName(context.namingConfig.enumPattern,
                       namePlaceholders(origin, enumName), context.namingConfig)
    IN  IF enumNode.type.kind \in {"UnionType", "LiteralType"} /\ wanted
        THEN [EmptyCollector EXCEPT
                !.typeStrings =
                    << Declared(typeString(formattedName, getText(enumNode.type)),
                                "Enum", origin) >>,
                !.enumNames =
                    << [name |-> enumName, formattedName |-> formattedName,
                        schema |-> origin] >>,
                !.mappings =
                    collectSchemaName(context, context.namingConfig.enumSchemaPattern,
                        namePlaceholders(origin, enumName), formattedName)]
        ELSE EmptyCollector

processEnums(member, context) ==
    forEachCollected(Array([i \in DOMAIN member.entries |->
        collectEnum(member.entries[i], context.schema, TRUE, context)]))

processCompositeType(typeNode, context) ==
    LET typeName == getNodeName(typeNode)
        formattedName ==
            formatName(context.namingConfig.compositeTypePattern,
                       namePlaceholders(context.schema, typeName),
                       context.namingConfig)
    IN  IF typeNode.type.kind = "TypeLiteral"
        THEN [EmptyCollector EXCEPT
                !.typeStrings =
                    << Declared(typeString(formattedName, getText(typeNode.type)),
                                "CompositeType", context.schema) >>,
                !.compositeTypeNames =
                    << [name |-> typeName, formattedName |-> formattedName] >>,
                !.mappings =
                    collectSchemaName(context,
                        context.namingConfig.compositeTypeSchemaPattern,
                        namePlaceholders(context.schema, typeName), formattedName)]
        ELSE EmptyCollector

processCompositeTypes(member, context) ==
    forEachCollected(Array([i \in DOMAIN member.entries |->
        processCompositeType(member.entries[i], context)]))

\* the children forEachChild visits in a property signature: its name, then
\* its type
memberChildren(memberNode) ==
    << TypeNode("Identifier", Ident(getNodeName(memberNode)), <<>>, 0),
       memberNode.type >>

functionTypeText(typeNode) ==
    IF typeNode.kind = "BooleanKeyword" THEN << <<Kw("boolean")>> >>
    ELSE IF Kw("Record<PropertyKey, never>") \in typeTokens(typeNode)
         THEN << <<Kw("{}")>> >>
         ELSE getText(typeNode)

processFunctionMemberChild(typeNode, memberName, funcName, context) ==
    LET pattern ==
            IF memberName = ArgsText
            THEN context.namingConfig.functionArgsPattern
            ELSE context.namingConfig.functionReturnsPattern
        schemaPattern ==
            IF memberName = ArgsText
            THEN context.namingConfig.functionArgsSchemaPattern
            ELSE context.namingConfig.functionReturnsSchemaPattern
        formattedName ==
            formatName(pattern, functionPlaceholders(context.schema, funcName),
                       context.namingConfig)
    IN  [EmptyCollector EXCEPT
            !.typeStrings =
                << Declared(
                     appendToLastLine(
                        typeString(formattedName, functionTypeText(typeNode)),
                        <<Kw(";")>>),
                     IF memberName = ArgsText THEN "FunctionArgs"
                                              ELSE "FunctionReturns",
                     context.schema) >>,
            !.mappings =
                collectSchemaName(context, schemaPattern,
                    functionPlaceholders(context.schema, funcName), formattedName)]

processFunctionMember(memberNode, funcName, context) ==
    LET memberName == getNodeName(memberNode)
        children == memberChildren(memberNode)
    IN  IF memberName = ArgsText \/ memberName = ReturnsText
        THEN forEachCollected(Array([i \in DOMAIN children |->
                processFunctionMemberChild(children[i], memberName, funcName, context)]))
        ELSE EmptyCollector

processFunctionDefinition(func, funcName, context) ==
    forEachCollected(Array([i \in DOMAIN func.members |->
        processFunctionMember(func.members[i], funcName, context)]))

processFunctions(member, context) ==
    forEachCollected(Array([i \in DOMAIN member.entries |->
        processFunctionDefinition(member.entries[i],
                                  getNodeName(member.entries[i]), context)]))

processSchemaMember(member, context) ==
    IF member.key \in {KeyTables, KeyViews} THEN processTablesOrViews(member, context)
    ELSE IF member.key = KeyEnums THEN processEnums(member, context)
    ELSE IF member.key = KeyCompositeTypes THEN processCompositeTypes(member, context)
    ELSE IF member.key = KeyFunctions THEN processFunctions(member, context)
    ELSE EmptyCollector

processSchemaMembers(schemaNode, context) ==
    forEachCollected(Array([i \in DOMAIN schemaNode.members |->
        processSchemaMember(schemaNode.members[i], context)]))

processOtherSchemaMember(member, schemaName, context) ==
    IF member.key = KeyEnums
    THEN forEachCollected(Array([i \in DOMAIN member.entries |->
            collectEnum(member.entries[i], schemaName,
                        isTypeReferenced(context.sourceFile, schemaName,
                                         getNodeName(member.entries[i])),
                        context)]))
    ELSE EmptyCollector

processOtherSchemaDependencies(schemaNode, schemaName, context) ==
    IF schemaName = context.schema THEN EmptyCollector
    ELSE forEachCollected(Array([i \in DOMAIN schemaNode.members |->
            processOtherSchemaMember(schemaNode.members[i], schemaName, context)]))

\* the members of every schema processed as those of the target schema
processSchemaNodeOfAnyName(schemaNode, context) ==
    mergeCollected(
        processSchemaMembers(schemaNode, context),
        IF context.processDependencies
        THEN processOtherSchemaDependencies(schemaNode, getNodeName(schemaNode),
                                            context)
        ELSE EmptyCollector)

processSchemaNode(schemaNode, context) ==
    LET schemaName == getNodeName(schemaNode)
    IN  mergeCollected(
            IF schemaName = context.schema
            THEN processSchemaMembers(schemaNode, context)
            ELSE EmptyCollector,
            IF context.processDependencies
            THEN processOtherSchemaDependencies(schemaNode, schemaName, context)
            ELSE EmptyCollector)

isDatabaseDefinition(sourceFile) ==
    \/ sourceFile.root \in {"TypeLiteral", "InterfaceDeclaration"}
    \/ isMergeDeepReference(sourceFile)

NoTypeLiteral == [kind |-> "null", schemas |-> <<>>]

\* the type of the first type alias of the name whose type is a type literal
resolveTypeReference(node, sourceFile) ==
    LET found == { i \in DOMAIN sourceFile.aliases :
                     /\ sourceFile.aliases[i].name = node.typeName
                     /\ sourceFile.aliases[i].type.kind = "TypeLiteral" }
    IN  IF found = {} THEN NoTypeLiteral
        ELSE sourceFile.aliases[CHOOSE i \in found : \A j \in found : i <= j].type

extractTypeLiteralFromMergeDeep(sourceFile) ==
    LET typeArgs == sourceFile.typeArguments
    IN  IF Len(typeArgs) < 1 THEN NoTypeLiteral
        ELSE IF typeArgs[1].kind = "TypeLiteral" THEN typeArgs[1]
        ELSE IF typeArgs[1].kind = "TypeReference"
             THEN resolveTypeReference(typeArgs[1], sourceFile)
        ELSE NoTypeLiteral

\* the members processSchemaNode is called with
databaseMembers(sourceFile) ==
    IF isMergeDeepReference(sourceFile)
    THEN extractTypeLiteralFromMergeDeep(sourceFile).schemas
    ELSE sourceFile.schemas

processDatabaseNode(sourceFile, context) ==
    LET members == databaseMembers(sourceFile)
    IN  forEachCollected(Array([i \in DOMAIN members |->
            processSchemaNode(members[i], context)]))

JsonName == <<"J","s","o","n">>

JsonTypeAliasText ==
    typeString(JsonName,
        << <<Kw("string | number | boolean | null | { [key: string]: Json } | Json[]")>> >>)

processSourceFile(sourceFile, context) ==
    mergeCollected(
        IF sourceFile.json
        THEN [EmptyCollector EXCEPT
                !.typeStrings = << Declared(JsonTypeAliasText, "Json", <<>>) >>]
        ELSE EmptyCollector,
        IF isDatabaseDefinition(sourceFile)
        THEN processDatabaseNode(sourceFile, context)
        ELSE EmptyCollector)

(***************************************************************************)
(* transform-types.ts: formatOutput and the cross-reference rewriter       *)
(***************************************************************************)
\* s.includes(' = "')
isEnumString(declared) ==
    \E l \in DOMAIN declared.text :
        \E i \in 1..(Len(declared.text[l]) - 1) :
            /\ declared.text[l][i] = Kw(" = ")
            /\ declared.text[l][i + 1].t = "str"
            /\ declared.text[l][i + 1].q = DQ

NumericRecordTokens == {Kw("Record<number, unknown>"), Kw("Record<number, string>")}

\* s.includes('Record<number')
includesRecordNumber(declared) ==
    \E l \in DOMAIN declared.text :
        \E i \in DOMAIN declared.text[l] : declared.text[l][i] \in NumericRecordTokens

isOtherString(declared) ==
    ~isEnumString(declared) /\ ~includesRecordNumber(declared)

\* the type strings formatOutput keeps, in the order of its text
keptTypeStrings(collector) ==
    SelectSeq(collector.typeStrings, isEnumString)
    \o SelectSeq(collector.typeStrings, isOtherString)

textsOf(declareds) == Array([i \in DOMAIN declareds |-> declareds[i].text])

isWord(nm) ==
    /\ nm # <<>>
    /\ \A i \in DOMAIN nm : IsAlnum(nm[i]) \/ nm[i] = "_"

replaceTableOperationReferences(typeString_, namingConfig) ==
    Array([l \in DOMAIN typeString_ |->
        joinParts(Array([i \in DOMAIN typeString_[l] |->
            LET tok == typeString_[l][i]
            IN  IF /\ tok.t = "ref"
                   /\ tok.q = DQ
                   /\ tok.cat \in {KeyTables, KeyViews}
                   /\ isWord(tok.schema) /\ isWord(tok.name) /\ isWord(tok.op)
                THEN Ident(formatName(namingConfig.tableOperationPattern,
                            tablePlaceholders(tok.schema, tok.name, tok.op),
                            namingConfig))
                ELSE <<tok>>]))])

capitalizeWords(str) ==
    LET parts == splitChar(str, 1, "_", <<>>)
    IN  joinParts(Array([i \in DOMAIN parts |-> capitalizePart(parts[i])]))

removeUnderscores(str) == replaceAll(str, <<"_">>, <<>>)

referencePatterns(schema, category, n, formattedName) ==
    << << RefTok(DQ, schema, category, n, <<>>) >>,
       << RefTok(SQ, schema, category, n, <<>>) >>,
       Ident(schema \o category \o n \o SchemaSuffix),
       Ident(schema \o n \o SchemaSuffix),
       Ident(toLowerCase(schema) \o n \o SchemaSuffix),
       Ident(removeUnderscores(schema) \o n \o SchemaSuffix),
       Ident(removeUnderscores(toLowerCase(schema)) \o n \o SchemaSuffix),
       Ident(capitalizeWords(schema) \o n \o SchemaSuffix),
       Ident(formattedName) >>

\* the loop over the patterns for one line: the first pattern the line
\* includes is replaced everywhere in the line, and the loop is left
RECURSIVE replaceFirstPattern(_, _, _, _)
replaceFirstPattern(line, patterns, i, replacement) ==
    IF i > Len(patterns) THEN line
    ELSE IF includes(line, patterns[i])
         THEN replaceAll(line, patterns[i], replacement)
         ELSE replaceFirstPattern(line, patterns, i + 1, replacement)

replaceTypeReferences(types, schema, category, n, formattedName) ==
    Array([l \in DOMAIN types |->
        replaceFirstPattern(types[l],
            referencePatterns(schema, category, n, formattedName), 1,
            Ident(formattedName))])

RECURSIVE replaceEnumReferences(_, _, _, _)
replaceEnumReferences(parsedTypes_, enumNames, i, schema) ==
    IF i > Len(enumNames) THEN parsedTypes_
    ELSE replaceEnumReferences(
            replaceTypeReferences(parsedTypes_,
                IF enumNames[i].schema # <<>> THEN enumNames[i].schema ELSE schema,
                KeyEnums, enumNames[i].name, enumNames[i].formattedName),
            enumNames, i + 1, schema)

RECURSIVE replaceCompositeReferences(_, _, _, _)
replaceCompositeReferences(parsedTypes_, compositeTypeNames, i, schema) ==
    IF i > Len(compositeTypeNames) THEN parsedTypes_
    ELSE replaceCompositeReferences(
            replaceTypeReferences(parsedTypes_, schema, KeyCompositeTypes,
                compositeTypeNames[i].name, compositeTypeNames[i].formattedName),
            compositeTypeNames, i + 1, schema)

\* the two loops of formatOutput over the collected names
rewriteReferences(parsedTypes_, collector, schema) ==
    replaceCompositeReferences(
        replaceEnumReferences(parsedTypes_, collector.enumNames, 1, schema),
        collector.compositeTypeNames, 1, schema)

formatOutput(collector, schema, namingConfig) ==
    LET enumTypes ==
            joinSemicolonNewline(
                textsOf(SelectSeq(collector.typeStrings, isEnumString)))
        otherTypes ==
            joinSemicolonNewline(
                textsOf(SelectSeq(collector.typeStrings, isOtherString)))
        joined == enumTypes \o EmptyText \o otherTypes
    IN  rewriteReferences(
            replaceTableOperationReferences(joined, namingConfig),
            collector, schema)

\* transformTypes called without a schemaNameCollector
transformTypesWithoutCollector(sourceFile, schema, processDependencies, namingConfig) ==
    LET context ==
            [sourceFile |-> sourceFile, schema |-> schema,
             processDependencies |-> processDependencies,
             namingConfig |-> namingConfig, schemaNameCollector |-> FALSE]
        collector == processSourceFile(sourceFile, context)
    IN  [text |-> formatOutput(collector, schema, namingConfig),
         declarations |-> keptTypeStrings(collector),
         collector |-> collector]

transformTypes(sourceFile, schema, processDependencies, namingConfig) ==
    LET context ==
            [sourceFile |-> sourceFile, schema |-> schema,
             processDependencies |-> processDependencies,
             namingConfig |-> namingConfig, schemaNameCollector |-> TRUE]
        collector == processSourceFile(sourceFile, context)
    IN  [text |-> formatOutput(collector, schema, namingConfig),
         declarations |-> keptTypeStrings(collector),
         collector |-> collector]

\* the schemas found when the first member of the root is passed over
getAllSchemasButFirst(sourceFile) ==
    IF sourceFile.root = "TypeLiteral"
    THEN Array([i \in 1..(Len(sourceFile.schemas) - 1) |->
                    sourceFile.schemas[i + 1].name])
    ELSE <<>>

getAllSchemas(sourceFile) ==
    IF sourceFile.root = "TypeLiteral" \/ isMergeDeepReference(sourceFile)
    THEN LET members == databaseMembers(sourceFile)
         IN  Array([i \in DOMAIN members |-> members[i].name])
    ELSE <<>>

(***************************************************************************)
(* supabase-to-zod.ts: collectTypes.  Every property signature typed as an *)
(* empty tuple is given the type unknown[] and the file is printed again   *)
(* before it is flattened.  A parsed array type always has an element      *)
(* type, so only the tuple case of the test can hold.                      *)
(***************************************************************************)
\* the test without its tuple case
isEmptyArrayOnly(type) ==
    type.kind = "ArrayType" /\ type.elements = 0

isEmptyArrayOrTuple(type) ==
    type.kind = "TupleType" /\ type.elements = 0

updatePropertySignature(node) ==
    IF isEmptyArrayOrTuple(node.type)
    THEN [node EXCEPT !.type = UnknownArrayType]
    ELSE [node EXCEPT !.type.props =
            Array([i \in DOMAIN node.type.props |->
                IF isEmptyArrayOrTuple(node.type.props[i].type)
                THEN [node.type.props[i] EXCEPT !.type = UnknownArrayType]
                ELSE node.type.props[i]])]

transformEntry(member, entry) ==
    IF member.key \in {KeyTables, KeyViews}
    THEN [entry EXCEPT !.ops =
            Array([i \in DOMAIN entry.ops |-> updatePropertySignature(entry.ops[i])])]
    ELSE IF member.key = KeyFunctions
         THEN [entry EXCEPT !.members =
                 Array([i \in DOMAIN entry.members |->
                     updatePropertySignature(entry.members[i])])]
         ELSE updatePropertySignature(entry)

transformedSchemas(schemas) ==
    Array([s \in DOMAIN schemas |->
        [schemas[s] EXCEPT !.members =
            Array([m \in DOMAIN schemas[s].members |->
                [schemas[s].members[m] EXCEPT !.entries =
                    Array([e \in DOMAIN schemas[s].members[m].entries |->
                        transformEntry(schemas[s].members[m],
                            schemas[s].members[m].entries[e])])]])]])

transformedSourceFile(sourceFile) ==
    IF isMergeDeepReference(sourceFile)
    THEN [sourceFile EXCEPT
            !.typeArguments =
                Array([i \in DOMAIN sourceFile.typeArguments |->
                    [sourceFile.typeArguments[i] EXCEPT
                        !.schemas = transformedSchemas(@)]]),
            !.aliases =
                Array([i \in DOMAIN sourceFile.aliases |->
                    [sourceFile.aliases[i] EXCEPT
                        !.type.schemas = transformedSchemas(@)]])]
    ELSE [sourceFile EXCEPT !.schemas = transformedSchemas(@)]

collectTypes(sourceFile, schema, processDependencies, namingConfig) ==
    transformTypes(transformedSourceFile(sourceFile), schema,
                   processDependencies, namingConfig)

(***************************************************************************)
(* supabase-to-zod.ts: buildSchemaNameOverrides.  The Map is the sequence  *)
(* of its entries [from, to] in insertion order; the warnings are the      *)
(* conflicts the logger is given.                                          *)
(***************************************************************************)
EmptyOverrides == [entries |-> <<>>, warnings |-> <<>>]

overridesHas(entries, key) == \E i \in DOMAIN entries : entries[i].from = key

overridesGet(entries, key) ==
    entries[CHOOSE i \in DOMAIN entries : entries[i].from = key].to

\* one iteration of the loop of buildSchemaNameOverrides
overrideStep(acc, mapping) ==
    LET defaultSchemaName == toSchemaVariableName(mapping.typeName, FALSE)
    IN  IF defaultSchemaName = <<>> \/ defaultSchemaName = mapping.schemaName
        THEN acc
        ELSE IF ~overridesHas(acc.entries, defaultSchemaName)
        THEN [acc EXCEPT !.entries =
                Append(@, [from |-> defaultSchemaName, to |-> mapping.schemaName])]
        ELSE LET existing == overridesGet(acc.entries, defaultSchemaName)
             IN  IF existing # <<>> /\ existing # mapping.schemaName
                 THEN [acc EXCEPT !.warnings =
                         Append(@, [name |-> defaultSchemaName,
                                    keeping |-> existing,
                                    ignoring |-> mapping.schemaName])]
                 ELSE acc

RECURSIVE overridesFrom(_, _, _)
overridesFrom(acc, mappings, i) ==
    IF i > Len(mappings) THEN acc
    ELSE overridesFrom(overrideStep(acc, mappings[i]), mappings, i + 1)

buildSchemaNameOverrides(mappings) == overridesFrom(EmptyOverrides, mappings, 1)

\* \b of a regular expression: between a word character and a character
\* that is none, or an end of the text
wordBoundaryAt(s, i) ==
    LET isWordChar(c) == IsAlnum(c) \/ c = "_"
    IN  (i > 1 /\ isWordChar(s[i - 1])) # (i <= Len(s) /\ isWordChar(s[i]))

\* content.replace(new RegExp(`\\b${escapeRegExp(from)}\\b`, 'g'), to), for a
\* key that is not empty
RECURSIVE replaceWords(_, _, _, _)
replaceWords(s, i, from, to) ==
    IF i > Len(s) THEN <<>>
    ELSE IF /\ startsWithAt(s, i, from)
            /\ wordBoundaryAt(s, i)
            /\ wordBoundaryAt(s, i + Len(from))
         THEN expandReplacement(to, 1, from)
              \o replaceWords(s, i + Len(from), from, to)
         ELSE <<s[i]>> \o replaceWords(s, i + 1, from, to)

\* [...overrides.entries()].sort(([a], [b]) => b.length - a.length): the
\* longest key first, the keys of one length in the order of the Map
RECURSIVE sortLongestFirst(_)
sortLongestFirst(entries) ==
    IF entries = <<>> THEN <<>>
    ELSE LET longest == CHOOSE i \in DOMAIN entries :
                 /\ \A j \in DOMAIN entries :
                       Len(entries[j].from) <= Len(entries[i].from)
                 /\ \A j \in 1..(i - 1) :
                       Len(entries[j].from) < Len(entries[i].from)
         IN  <<entries[longest]>>
             \o sortLongestFirst(SubSeq(entries, 1, longest - 1)
                                 \o SubSeq(entries, longest + 1, Len(entries)))

RECURSIVE applyEntries(_, _, _)
applyEntries(updatedContent, entries, i) ==
    IF i > Len(entries) THEN updatedContent
    ELSE applyEntries(replaceWords(updatedContent, 1, entries[i].from,
                                   entries[i].to),
                      entries, i + 1)

applySchemaNameOverrides(content_, entries) ==
    IF Len(entries) = 0 THEN content_
    ELSE applyEntries(content_, sortLongestFirst(entries), 1)

(***************************************************************************)
(* The values of the variables of a specification that is not running.     *)
(***************************************************************************)
NamingIdle ==
    /\ name = <<>>
    /\ preserve = FALSE
    /\ derived = <<>>

RunIdle ==
    /\ sourceText = [root |-> "None", json |-> FALSE, schemas |-> <<>>]
    /\ requested = <<>>
    /\ opts = [schema |-> <<>>, processDependencies |-> FALSE,
               namingConfig |-> defaultNamingConfig]
    /\ pc = "idle"
    /\ loopIndex = 1
    /\ parsedTypes = EmptyText
    /\ schemaNameMappings = <<>>
    /\ flattened = <<>>
    /\ generated = FALSE
    /\ schemaNameOverrides = <<>>
    /\ errors = <<>>
    /\ error = ""
    /\ written = {}

OverridesIdle ==
    /\ givenMappings = <<>>
    /\ mappingIndex = 1
    /\ overrides = EmptyOverrides

FormatIdle ==
    /\ template = <<>>
    /\ placeholderMap = <<>>
    /\ formatConfig = defaultNamingConfig
    /\ nameFormatted = <<>>

ApplyIdle ==
    /\ content = <<>>
    /\ typesContent = <<>>
    /\ contentOverrides = <<>>
    /\ applyPc = "idle"
    /\ applied = [schemas |-> <<>>, types |-> <<>>]

EncodingIdle ==
    /\ buffer = <<>>
    /\ encoding = <<>>

NoPath == [given |-> FALSE, path |-> <<>>]

NoConfig == [kind |-> "none"]

ConfigIdle ==
    /\ configPathOverride = NoPath
    /\ existingFiles = {}
    /\ configPc = "idle"
    /\ configPath = <<>>
    /\ loadedConfig = NoConfig

TypeNamesIdle ==
    /\ typeMappings = <<>>
    /\ typesPc = "idle"
    /\ inferredTypes = <<>>

IoIdle == EncodingIdle /\ ConfigIdle /\ TypeNamesIdle

LaterIdle == FormatIdle /\ ApplyIdle /\ IoIdle

(***************************************************************************)
(* The names the naming specification derives validator names from: every  *)
(* concatenation of at most MaxChunks of these pieces.                     *)
(***************************************************************************)
MaxChunks == 2

NameChunks ==
    { <<"a">>, <<"B">>, <<"_">>, <<" ">>, <<"1">>,
      SchemaSuffix, toLowerCase(SchemaSuffix) }

RECURSIVE ChunkedNames(_)
ChunkedNames(k) ==
    IF k = 0 THEN { <<>> }
    ELSE LET shorter == ChunkedNames(k - 1)
         IN  shorter \cup { s \o c : s \in shorter, c \in NameChunks }

NameInputs == ChunkedNames(MaxChunks)

(***************************************************************************)
(* Specification of the validator-name derivation: a name is derived, and  *)
(* the result is derived again.                                            *)
(***************************************************************************)
NamingInit ==
    /\ name \in NameInputs
    /\ preserve \in BOOLEAN
    /\ derived = <<>>
    /\ RunIdle
    /\ OverridesIdle
    /\ LaterIdle

Derive ==
    /\ Len(derived) < 2
    /\ derived' = Append(derived,
            toSchemaVariableName(
                IF derived = <<>> THEN name ELSE derived[Len(derived)],
                preserve))
    /\ UNCHANGED <<name, preserve, runVars, overrideVars, laterVars>>

NamingNext == Derive

SpecNaming == NamingInit /\ [][NamingNext]_vars

(***************************************************************************)
(* The input files of the run specification.  A file declares at most      *)
(* MaxSchemas schemas, named a, b, ... in source order; the body of each   *)
(* is one of the bodies below, written with the names t and v (table and   *)
(* view), e (enum), k (composite type), f and g (functions), x, y and z    *)
(* (columns, arguments and attributes).                                    *)
(***************************************************************************)
MaxSchemas == 2

MaxRequested == 2

SchemaNameAt(i) == << LowerChars[i] >>

RowText == <<"R","o","w">>

InsertText == <<"I","n","s","e","r","t">>

RelationshipsText == <<"R","e","l","a","t","i","o","n","s","h","i","p","s">>

Member(key, entries) == [key |-> key, entries |-> entries]

TableEntry(n, ops) == [name |-> n, ops |-> ops]

FunctionEntry(n, members) == [name |-> n, members |-> members]

RowOf(type) == Property(RowText, TypeLiteral(<< Property(<<"x">>, type) >>))

EnumE == Property(<<"e">>, LiteralUnionType(DQ))

\* Enums: { e: "p" | "q" }
EnumsOnlyBody(self) == << Member(KeyEnums, << EnumE >>) >>

\* Tables: { t: { Row: { x: string }; Insert: [string, string];
\*                Relationships: [] } }
PlainTableBody(self) ==
    << Member(KeyTables,
        << TableEntry(<<"t">>,
            << RowOf(StringType),
               Property(InsertText, PairTupleType),
               Property(RelationshipsText, EmptyTupleType) >>) >>) >>

\* Tables: { t: { Row: { x: Database['b']['Enums']['e'] } } }
ReferringBody(self) ==
    << Member(KeyTables,
        << TableEntry(<<"t">>,
            << RowOf(EnumRefType(SQ, SchemaNameAt(2), <<"e">>)) >>) >>) >>

\* Tables: { t: { Row: { x: Database['b']['Enums']['e']
\*                         | Database["b"]["Enums"]["e"] } } }
MixedQuotesBody(self) ==
    << Member(KeyTables,
        << TableEntry(<<"t">>,
            << RowOf(UnionType(EnumRefType(SQ, SchemaNameAt(2), <<"e">>),
                               EnumRefType(DQ, SchemaNameAt(2), <<"e">>))) >>) >>) >>

\* Enums: { e: "p" | "q" }; Views: { v: { Row: { x: Database["self"]["Enums"]["e"] } } }
OwnEnumBody(self) ==
    << Member(KeyEnums, << EnumE >>),
       Member(KeyViews,
        << TableEntry(<<"v">>, << RowOf(EnumRefType(DQ, self, <<"e">>)) >>) >>) >>

\* Functions: { f: { Args: { y: string }; Returns: boolean };
\*              g: { Args: Record<PropertyKey, never>;
\*                   Returns: Record<number, unknown> } }
FunctionsBody(self) ==
    << Member(KeyFunctions,
        << FunctionEntry(<<"f">>,
            << Property(ArgsText, TypeLiteral(<< Property(<<"y">>, StringType) >>)),
               Property(ReturnsText, BooleanType) >>),
           FunctionEntry(<<"g">>,
            << Property(ArgsText, NoPropertiesType),
               Property(ReturnsText,
                   TypeNode("TypeReference",
                            <<Kw("Record<number, unknown>")>>, <<>>, 0)) >>) >>) >>

\* Tables: { t: { Row: { x: [] }; Relationships: [] } };
\* CompositeTypes: { k: { z: [] } };
\* Functions: { f: { Args: { y: [] }; Returns: [] } }
EmptyArraysBody(self) ==
    << Member(KeyTables,
        << TableEntry(<<"t">>,
            << RowOf(EmptyTupleType),
               Property(RelationshipsText, EmptyTupleType) >>) >>),
       Member(KeyCompositeTypes,
        << Property(<<"k">>, TypeLiteral(<< Property(<<"z">>, EmptyTupleType) >>)) >>),
       Member(KeyFunctions,
        << FunctionEntry(<<"f">>,
            << Property(ArgsText,
                    TypeLiteral(<< Property(<<"y">>, EmptyTupleType) >>)),
               Property(ReturnsText, EmptyTupleType) >>) >>) >>

\* Functions: { f: { Args: { y: string } } };
\* CompositeTypes: { k: { z: string } }
FunctionsFirstBody(self) ==
    << Member(KeyFunctions,
        << FunctionEntry(<<"f">>,
            << Property(ArgsText,
                    TypeLiteral(<< Property(<<"y">>, StringType) >>)) >>) >>),
       Member(KeyCompositeTypes,
        << Property(<<"k">>, TypeLiteral(<< Property(<<"z">>, StringType) >>)) >> ) >>

\* the first schema has any of the bodies; the schemas after it are the ones
\* it may refer to, and declare the enum, the second referring to its own
\* enum or not
SchemaBodies(k) ==
    IF k = 1
    THEN { EnumsOnlyBody(SchemaNameAt(k)), PlainTableBody(SchemaNameAt(k)),
           ReferringBody(SchemaNameAt(k)), MixedQuotesBody(SchemaNameAt(k)),
           OwnEnumBody(SchemaNameAt(k)), FunctionsBody(SchemaNameAt(k)),
           EmptyArraysBody(SchemaNameAt(k)),
           FunctionsFirstBody(SchemaNameAt(k)) }
    ELSE IF k = 2
    THEN { EnumsOnlyBody(SchemaNameAt(k)), OwnEnumBody(SchemaNameAt(k)) }
    ELSE { EnumsOnlyBody(SchemaNameAt(k)) }

\* the schema properties of the root declaration: k of them
RECURSIVE SchemaLists(_)
SchemaLists(k) ==
    IF k = 0 THEN { <<>> }
    ELSE { Append(ss, [name |-> SchemaNameAt(k), members |-> body]) :
             ss \in SchemaLists(k - 1), body \in SchemaBodies(k) }

\* type Database = {...} after the Json alias or without it,
\* interface Database {...}, and a file that declares Database in neither
\* way
SourceFiles ==
    { [root |-> kind.root, json |-> kind.json, schemas |-> ss] :
        kind \in { [root |-> "TypeLiteral", json |-> TRUE],
                   [root |-> "TypeLiteral", json |-> FALSE],
                   [root |-> "InterfaceDeclaration", json |-> TRUE] },
        ss \in UNION { SchemaLists(k) : k \in 0..MaxSchemas } }
    \cup { [root |-> "None", json |-> TRUE, schemas |-> <<>>] }

\* the lists of schema names a caller asks for: no name twice
RECURSIVE RequestedLists(_)
RequestedLists(k) ==
    IF k = 0 THEN { <<>> }
    ELSE LET shorter == RequestedLists(k - 1)
         IN  shorter \cup
             { Append(r, SchemaNameAt(i)) :
                 r \in shorter, i \in 1..MaxSchemas }

DistinctRequestedLists ==
    { r \in RequestedLists(MaxRequested) :
        \A i, j \in DOMAIN r : i # j => r[i] # r[j] }

(***************************************************************************)
(* supabase-to-zod.ts: generateContent and supabaseToZod, one run.  The    *)
(* validator generator is outside the program: it reports errors or none.  *)
(***************************************************************************)
NoSchemasSpecified == "No schemas specified"

FailedToGenerate == "Failed to generate schemas"

OutputFile == "output"

TypesOutputFile == "typesOutput"

RunInit ==
    /\ sourceText \in SourceFiles
    /\ requested \in DistinctRequestedLists
    /\ opts \in { [schema |-> requested, processDependencies |-> d,
                   namingConfig |-> defaultNamingConfig] : d \in BOOLEAN }
    /\ pc = "resolveSchemas"
    /\ loopIndex = 1
    /\ parsedTypes = EmptyText
    /\ schemaNameMappings = <<>>
    /\ flattened = <<>>
    /\ generated = FALSE
    /\ schemaNameOverrides = <<>>
    /\ errors = <<>>
    /\ error = ""
    /\ written = {}
    /\ NamingIdle
    /\ OverridesIdle
    /\ LaterIdle

\* if (!opts.schema.length) opts.schema = getAllSchemas(sourceText)
ResolveSchemas ==
    /\ pc = "resolveSchemas"
    /\ opts' = [opts EXCEPT !.schema =
                   IF Len(@) = 0 THEN getAllSchemas(sourceText) ELSE @]
    /\ pc' = "checkSchemas"
    /\ UNCHANGED <<sourceText, requested, loopIndex, parsedTypes,
                   schemaNameMappings, flattened, generated,
                   schemaNameOverrides, errors, error, written>>
    /\ UNCHANGED <<namingVars, overrideVars, laterVars>>

\* the test of the schema list left out
neverNoSchemas(schema) == FALSE

noSchemas(schema) == Len(schema) = 0

\* if (!opts.schema.length) throw new Error('No schemas specified')
CheckSchemas ==
    /\ pc = "checkSchemas"
    /\ IF noSchemas(opts.schema)
       THEN /\ pc' = "threw"
            /\ error' = NoSchemasSpecified
       ELSE /\ pc' = "transform"
            /\ error' = error
    /\ UNCHANGED <<sourceText, requested, opts, loopIndex, parsedTypes,
                   schemaNameMappings, flattened, generated,
                   schemaNameOverrides, errors, written>>
    /\ UNCHANGED <<namingVars, overrideVars, laterVars>>

\* one iteration of the loop over opts.schema
TransformSchema ==
    /\ pc = "transform"
    /\ loopIndex <= Len(opts.schema)
    /\ LET schema == opts.schema[loopIndex]
           schemaParsedTypes ==
               collectTypes(sourceText, schema, opts.processDependencies,
                            opts.namingConfig)
       IN  /\ parsedTypes' = concatText(parsedTypes, schemaParsedTypes.text)
           /\ schemaNameMappings' =
                 schemaNameMappings \o schemaParsedTypes.collector.mappings
           /\ flattened' =
                 Append(flattened,
                    [schema |-> schema,
                     text |-> schemaParsedTypes.text,
                     declarations |-> schemaParsedTypes.declarations,
                     collector |-> schemaParsedTypes.collector])
    /\ loopIndex' = loopIndex + 1
    /\ UNCHANGED <<sourceText, requested, opts, pc, generated,
                   schemaNameOverrides, errors, error, written>>
    /\ UNCHANGED <<namingVars, overrideVars, laterVars>>

\* the error lists the validator generator may return
GeneratorErrors == { <<>>, <<"e">> }

\* the test of the error list left out
neverHasErrors(list) == FALSE

\* errors.length > 0
hasErrors(list) == Len(list) > 0

\* generate(...), buildSchemaNameOverrides(...), then the test of the errors;
\* the error thrown is caught and thrown again as 'Failed to generate schemas'
GenerateSchemas ==
    /\ pc = "transform"
    /\ loopIndex > Len(opts.schema)
    /\ generated' = TRUE
    /\ schemaNameOverrides' = buildSchemaNameOverrides(schemaNameMappings).entries
    /\ errors' \in GeneratorErrors
    /\ IF hasErrors(errors')
       THEN /\ pc' = "threw"
            /\ error' = FailedToGenerate
       ELSE /\ pc' = "returned"
            /\ error' = error
    /\ UNCHANGED <<sourceText, requested, opts, loopIndex, parsedTypes,
                   schemaNameMappings, flattened, written>>
    /\ UNCHANGED <<namingVars, overrideVars, laterVars>>

\* supabaseToZod: the files written once generateContent has returned;
\* opts.typesOutput is given or not
WriteFiles ==
    /\ pc = "returned"
    /\ \E typesOutput \in BOOLEAN :
        written' = {OutputFile}
                   \cup (IF typesOutput THEN {TypesOutputFile} ELSE {})
    /\ pc' = "done"
    /\ UNCHANGED <<sourceText, requested, opts, loopIndex, parsedTypes,
                   schemaNameMappings, flattened, generated,
                   schemaNameOverrides, errors, error>>
    /\ UNCHANGED <<namingVars, overrideVars, laterVars>>

RunNext ==
    \/ ResolveSchemas
    \/ CheckSchemas
    \/ TransformSchema
    \/ GenerateSchemas
    \/ WriteFiles

SpecRun == RunInit /\ [][RunNext]_vars

(***************************************************************************)
(* Specification of buildSchemaNameOverrides over the sequences of at most *)
(* MaxMappings mappings: the declaration names A and a have the same       *)
(* default validator name.                                                 *)
(***************************************************************************)
MaxMappings == 3

MappingTypeNames == { <<"A">>, <<"a">>, <<"B">> }

MappingSchemaNames ==
    { <<"a">> \o SchemaSuffix, <<"x">> \o SchemaSuffix, <<"y">> \o SchemaSuffix }

SchemaNameMappings ==
    { [typeName |-> t, schemaName |-> n] :
        t \in MappingTypeNames, n \in MappingSchemaNames }

RECURSIVE MappingLists(_)
MappingLists(k) ==
    IF k = 0 THEN { <<>> }
    ELSE LET shorter == MappingLists(k - 1)
         IN  shorter \cup { Append(ms, m) : ms \in shorter, m \in SchemaNameMappings }

OverridesInit ==
    /\ givenMappings \in MappingLists(MaxMappings)
    /\ mappingIndex = 1
    /\ overrides = EmptyOverrides
    /\ NamingIdle
    /\ RunIdle
    /\ LaterIdle

OverrideNextMapping ==
    /\ mappingIndex <= Len(givenMappings)
    /\ overrides' = overrideStep(overrides, givenMappings[mappingIndex])
    /\ mappingIndex' = mappingIndex + 1
    /\ UNCHANGED <<givenMappings, namingVars, runVars, laterVars>>

OverridesNext == OverrideNextMapping

SpecOverrides == OverridesInit /\ [][OverridesNext]_vars

(***************************************************************************)
(* Specification of formatName: the patterns are the concatenations of at  *)
(* most MaxPieces pieces, and the placeholders given have the keys schema, *)
(* table and operation, in that order, or lack some of them.               *)
(***************************************************************************)
MaxPieces == 3

PatternPieces ==
    { Placeholder(KeySchema), Placeholder(KeyTable), Placeholder(KeyOperation),
      <<"_">> }

RECURSIVE Patterns(_)
Patterns(k) ==
    IF k = 0 THEN { <<>> }
    ELSE LET shorter == Patterns(k - 1)
         IN  shorter \cup { s \o c : s \in shorter, c \in PatternPieces }

\* my_schema, {table}, $$; user_profile, aB; insert
SchemaValues == { <<"m","y","_","s","c","h","e","m","a">>, <<"{","t","a","b","l","e","}">>, <<"$","$">> }

TableValues == { <<"u","s","e","r","_","p","r","o","f","i","l","e">>, <<"a","B">> }

OperationValues == { <<"i","n","s","e","r","t">> }

\* Object.entries(placeholders): the keys present, in insertion order
PlaceholderMaps ==
    LET Optional(key, values) ==
            { <<>> } \cup { << [key |-> key, value |-> v] >> : v \in values }
    IN  { s \o t \o o : s \in Optional(KeySchema, SchemaValues),
                        t \in Optional(KeyTable, TableValues),
                        o \in Optional(KeyOperation, OperationValues) }

FormatConfigs ==
    { [defaultNamingConfig EXCEPT !.capitalizeSchema = cs, !.capitalizeNames = cn] :
        cs \in BOOLEAN, cn \in BOOLEAN }

FormatInit ==
    /\ template \in Patterns(MaxPieces)
    /\ placeholderMap \in PlaceholderMaps
    /\ formatConfig \in FormatConfigs
    /\ nameFormatted = <<>>
    /\ NamingIdle
    /\ RunIdle
    /\ OverridesIdle
    /\ ApplyIdle
    /\ IoIdle

FormatName ==
    /\ nameFormatted = <<>>
    /\ nameFormatted' = << [values |-> formattedValues(placeholderMap, formatConfig),
                        result |-> formatName(template, placeholderMap,
                                              formatConfig)] >>
    /\ UNCHANGED <<template, placeholderMap, formatConfig>>
    /\ UNCHANGED <<namingVars, runVars, overrideVars, applyVars, ioVars>>

FormatNext == FormatName

SpecFormat == FormatInit /\ [][FormatNext]_vars

(***************************************************************************)
(* Specification of the application of the overrides to the two sources    *)
(* the generator returns: the sources are concatenations of the pieces b,  *)
(* ab, ba and a space, and the Map has the keys b and ab or lacks them.    *)
(***************************************************************************)
MaxWords == 3

ContentPieces == { <<"b">>, <<"a","b">>, <<"b","a">>, <<" ">> }

RECURSIVE Contents(_)
Contents(k) ==
    IF k = 0 THEN { <<>> }
    ELSE LET shorter == Contents(k - 1)
         IN  shorter \cup { s \o c : s \in shorter, c \in ContentPieces }

OverrideKeys == { <<"b">>, <<"a","b">> }

OverrideValues == { <<"c">>, <<"b">>, <<"a","b">> }

\* the Maps, each with its entries in the order they were set
OverrideMaps ==
    LET Entries == { [from |-> k, to |-> v] : k \in OverrideKeys, v \in OverrideValues }
    IN  { <<>> } \cup { <<e>> : e \in Entries }
        \cup { es \in Entries \X Entries : es[1].from # es[2].from }

ApplyInit ==
    /\ content \in Contents(MaxWords)
    /\ typesContent \in Contents(1)
    /\ contentOverrides \in OverrideMaps
    /\ applyPc = "schemas"
    /\ applied = [schemas |-> <<>>, types |-> <<>>]
    /\ NamingIdle
    /\ RunIdle
    /\ OverridesIdle
    /\ FormatIdle
    /\ IoIdle

\* applySchemaNameOverrides(zodSchemasFile, schemaNameOverrides)
ApplyToSchemas ==
    /\ applyPc = "schemas"
    /\ applied' = [applied EXCEPT !.schemas =
                      applySchemaNameOverrides(content, contentOverrides)]
    /\ applyPc' = "types"
    /\ UNCHANGED <<content, typesContent, contentOverrides>>
    /\ UNCHANGED <<namingVars, runVars, overrideVars, formatVars, ioVars>>

\* if (opts.typesOutput): applySchemaNameOverrides(typesContent, ...)
ApplyToTypes ==
    /\ applyPc = "types"
    /\ applied' = [applied EXCEPT !.types =
                      applySchemaNameOverrides(typesContent, contentOverrides)]
    /\ applyPc' = "returnedTypes"
    /\ UNCHANGED <<content, typesContent, contentOverrides>>
    /\ UNCHANGED <<namingVars, runVars, overrideVars, formatVars, ioVars>>

\* opts.typesOutput is not given
ReturnSchemasOnly ==
    /\ applyPc = "types"
    /\ applyPc' = "returned"
    /\ UNCHANGED <<content, typesContent, contentOverrides, applied>>
    /\ UNCHANGED <<namingVars, runVars, overrideVars, formatVars, ioVars>>

ApplyNext ==
    \/ ApplyToSchemas
    \/ ApplyToTypes
    \/ ReturnSchemasOnly

SpecApply == ApplyInit /\ [][ApplyNext]_vars

(***************************************************************************)
(* The detection of the encoding of the input file.  A buffer is a         *)
(* sequence of bytes; buffer[i] of the code is buffer[i + 1] here.         *)
(***************************************************************************)
\* Math.min
min(a, b) == IF a < b THEN a ELSE b

\* the number of bytes detectUtf16LePattern and detectUtf16BePattern examine
SampleLength == 100

\* byte1 !== 0 && byte1 < 128 && byte2 === 0
isLePair(byte1, byte2) == byte1 # 0 /\ byte1 < 128 /\ byte2 = 0

\* byte1 === 0 && byte2 !== 0 && byte2 < 128
isBePair(byte1, byte2) == byte1 = 0 /\ byte2 # 0 /\ byte2 < 128

\* the values i takes in for (let i = 0; i < checkLength - 1; i += 2)
loopIndices(checkLength) == { i \in 0..(checkLength - 2) : i % 2 = 0 }

\* the loop of detectUtf16LePattern: the two counters after it
countLePairs(buf, checkLength) ==
    [nullInOddPosition |->
         Cardinality({ i \in loopIndices(checkLength) :
                         isLePair(buf[i + 1], buf[i + 2]) }),
     totalChecked |-> Cardinality(loopIndices(checkLength))]

\* the loop as it would be over the whole buffer
detectUtf16LePatternOfWholeBuffer(buf) ==
    LET counters == countLePairs(buf, Len(buf))
    IN  /\ counters.totalChecked > 0
        /\ 5 * counters.nullInOddPosition > 4 * counters.totalChecked

\* nullInOddPosition / totalChecked > 0.8, which for these counters is the
\* comparison of 5 * nullInOddPosition with 4 * totalChecked
detectUtf16LePattern(buf) ==
    LET checkLength == min(Len(buf), SampleLength)
        counters == countLePairs(buf, checkLength)
    IN  /\ counters.totalChecked > 0
        /\ 5 * counters.nullInOddPosition > 4 * counters.totalChecked

\* the loop of detectUtf16BePattern: the two counters after it
countBePairs(buf, checkLength) ==
    [nullInEvenPosition |->
         Cardinality({ i \in loopIndices(checkLength) :
                         isBePair(buf[i + 1], buf[i + 2]) }),
     totalChecked |-> Cardinality(loopIndices(checkLength))]

detectUtf16BePattern(buf) ==
    LET checkLength == min(Len(buf), SampleLength)
        counters == countBePairs(buf, checkLength)
    IN  /\ counters.totalChecked > 0
        /\ 5 * counters.nullInEvenPosition > 4 * counters.totalChecked

\* 0xff is 255, 0xfe is 254, 0xef is 239, 0xbb is 187, 0xbf is 191
detectFileEncoding(buf) ==
    IF Len(buf) >= 2 /\ buf[1] = 255 /\ buf[2] = 254 THEN "utf-16le"
    ELSE IF Len(buf) >= 2 /\ buf[1] = 254 /\ buf[2] = 255 THEN "utf-16be"
    ELSE IF Len(buf) >= 3 /\ buf[1] = 239 /\ buf[2] = 187 /\ buf[3] = 191
         THEN "utf-8"
    ELSE IF Len(buf) >= 4 /\ detectUtf16LePattern(buf) THEN "utf-16le"
    ELSE IF Len(buf) >= 4 /\ detectUtf16BePattern(buf) THEN "utf-16be"
    ELSE "utf-8"

(***************************************************************************)
(* The buffers: every sequence of at most MaxBytes of these bytes, and     *)
(* long buffers of pairs of bytes, with or without a byte-order mark in    *)
(* front: a run of one pair, the rest of the first hundred bytes of        *)
(* another pair, and a tail of a third.                                    *)
(***************************************************************************)
MaxBytes == 4

ByteValues == { 0, 65, 200, 239, 187, 191, 254, 255 }

RECURSIVE ShortBuffers(_)
ShortBuffers(k) ==
    IF k = 0 THEN { <<>> }
    ELSE LET shorter == ShortBuffers(k - 1)
         IN  shorter \cup { b \o <<v>> : b \in shorter, v \in ByteValues }

Repeated(pair, n) == Array([i \in 1..(2 * n) |-> pair[2 - (i % 2)]])

BytePairs == { <<65, 0>>, <<0, 65>>, <<65, 65>> }

ByteOrderMarks == { <<>>, <<255, 254>>, <<254, 255>>, <<239, 187, 191>> }

LongBuffers ==
    { bom \o Repeated(ps[1], m) \o Repeated(ps[2], 50 - m) \o Repeated(ps[3], t) :
        bom \in ByteOrderMarks, ps \in BytePairs \X BytePairs \X BytePairs,
        m \in { 40, 41, 50 }, t \in { 0, 1, 25 } }

Buffers == ShortBuffers(MaxBytes) \cup LongBuffers

EncodingInit ==
    /\ buffer \in Buffers
    /\ encoding = <<>>
    /\ NamingIdle
    /\ RunIdle
    /\ OverridesIdle
    /\ FormatIdle
    /\ ApplyIdle
    /\ ConfigIdle
    /\ TypeNamesIdle

\* const buffer = await fs.readFile(filePath), and what follows
DetectFileEncoding ==
    /\ encoding = <<>>
    /\ encoding' = << detectFileEncoding(buffer) >>
    /\ UNCHANGED buffer
    /\ UNCHANGED <<namingVars, runVars, overrideVars, formatVars, applyVars,
                   configVars, typeNameVars>>

EncodingNext == DetectFileEncoding

SpecEncoding == EncodingInit /\ [][EncodingNext]_vars

(***************************************************************************)
(* The loading of the configuration file.  A path is the sequence of its   *)
(* segments, "/" first when it is absolute; the empty sequence is the      *)
(* empty string.                                                           *)
(***************************************************************************)
CONFIG_FILE_NAMES ==
    << "supazod.config.ts", "supazod.config.js", "supazod.config.mjs",
       "supazod.config.json", ".supazodrc.ts", ".supazodrc.js",
       ".supazodrc.mjs", ".supazodrc.json", ".supazodrc" >>

\* process.cwd()
cwd == << "/", "project" >>

isAbsolute(path) == path # <<>> /\ path[1] = "/"

resolve(from, path) == from \o path

join(dir, fileName) == dir \o << fileName >>

\* if (configPathOverride): a path is given and is not the empty string
isTruthy(override) == override.given /\ override.path # <<>>

\* the loop as it would be if it went on to the last name that exists
RECURSIVE lastExistingFrom(_, _)
lastExistingFrom(i, existing) ==
    IF i > Len(CONFIG_FILE_NAMES) THEN 0
    ELSE LET later == lastExistingFrom(i + 1, existing)
         IN  IF later # 0 THEN later
             ELSE IF join(cwd, CONFIG_FILE_NAMES[i]) \in existing THEN i
             ELSE 0

\* the loop over CONFIG_FILE_NAMES from index i on: the index of the name
\* it returns at, 0 when it ends
RECURSIVE firstExistingFrom(_, _)
firstExistingFrom(i, existing) ==
    IF i > Len(CONFIG_FILE_NAMES) THEN 0
    ELSE IF join(cwd, CONFIG_FILE_NAMES[i]) \in existing THEN i
    ELSE firstExistingFrom(i + 1, existing)

ConfigurationFileNotFound(path) ==
    [kind |-> "error", message |-> "Configuration file not found", path |-> path]

InvalidConfigurationFile(path) ==
    [kind |-> "error", message |-> "Invalid configuration file", path |-> path]

\* return {}
EmptyConfig == [kind |-> "config", from |-> <<>>]

\* the configuration of the file of a path
ConfigOf(path) == [kind |-> "config", from |-> path]

(***************************************************************************)
(* The paths given and the files that exist: any of the candidates, a file *)
(* of another name in the working directory, and one elsewhere.            *)
(***************************************************************************)
CandidatePaths ==
    { join(cwd, CONFIG_FILE_NAMES[i]) : i \in DOMAIN CONFIG_FILE_NAMES }

OtherPaths == { join(cwd, "custom.json"), << "/", "etc", "custom.json" >> }

PathOverrides ==
    { NoPath }
      \cup { [given |-> TRUE, path |-> path] :
               path \in { <<>>, << "custom.json" >>, << ".supazodrc" >>,
                          << "/", "etc", "custom.json" >> } }

ConfigInit ==
    /\ configPathOverride \in PathOverrides
    /\ existingFiles \in SUBSET (CandidatePaths \cup OtherPaths)
    /\ configPc = "loadConfig"
    /\ configPath = <<>>
    /\ loadedConfig = NoConfig
    /\ NamingIdle
    /\ RunIdle
    /\ OverridesIdle
    /\ FormatIdle
    /\ ApplyIdle
    /\ EncodingIdle
    /\ TypeNamesIdle

\* if (configPathOverride) { ... }
LoadConfigOfPathGiven ==
    /\ configPc = "loadConfig"
    /\ isTruthy(configPathOverride)
    /\ LET resolvedPath == IF isAbsolute(configPathOverride.path)
                           THEN configPathOverride.path
                           ELSE resolve(cwd, configPathOverride.path)
       IN  IF resolvedPath \notin existingFiles
           THEN /\ loadedConfig' = ConfigurationFileNotFound(resolvedPath)
                /\ configPc' = "threw"
                /\ UNCHANGED configPath
           ELSE /\ configPath' = resolvedPath
                /\ configPc' = "loadConfigFromPath"
                /\ UNCHANGED loadedConfig
    /\ UNCHANGED <<configPathOverride, existingFiles>>
    /\ UNCHANGED <<namingVars, runVars, overrideVars, formatVars, applyVars,
                   encodingVars, typeNameVars>>

\* for (const configFileName of CONFIG_FILE_NAMES) { ... } return {}
DiscoverConfig ==
    /\ configPc = "loadConfig"
    /\ ~isTruthy(configPathOverride)
    /\ LET found == firstExistingFrom(1, existingFiles)
       IN  IF found # 0
           THEN /\ configPath' = join(cwd, CONFIG_FILE_NAMES[found])
                /\ configPc' = "loadConfigFromPath"
                /\ UNCHANGED loadedConfig
           ELSE /\ loadedConfig' = EmptyConfig
                /\ configPc' = "returned"
                /\ UNCHANGED configPath
    /\ UNCHANGED <<configPathOverride, existingFiles>>
    /\ UNCHANGED <<namingVars, runVars, overrideVars, formatVars, applyVars,
                   encodingVars, typeNameVars>>

\* loadConfigFromPath: the file is read and its configuration returned, or
\* reading, parsing or validating it throws
LoadConfigFromPath ==
    /\ configPc = "loadConfigFromPath"
    /\ \E valid \in BOOLEAN :
          IF valid
          THEN /\ loadedConfig' = ConfigOf(configPath)
               /\ configPc' = "returned"
          ELSE /\ loadedConfig' = InvalidConfigurationFile(configPath)
               /\ configPc' = "threw"
    /\ UNCHANGED <<configPathOverride, existingFiles, configPath>>
    /\ UNCHANGED <<namingVars, runVars, overrideVars, formatVars, applyVars,
                   encodingVars, typeNameVars>>

ConfigNext ==
    \/ LoadConfigOfPathGiven
    \/ DiscoverConfig
    \/ LoadConfigFromPath

SpecConfig == ConfigInit /\ [][ConfigNext]_vars

(***************************************************************************)
(* Specification of the naming of the types of the type-inference source:  *)
(* the part of generateContent under opts.typesOutput, for the default      *)
(* typeNameTransformer.  A line of the source is the name of a type alias,  *)
(* a space, and the name of the validator the alias infers its type from.   *)
(***************************************************************************)
\* /[^A-Za-z0-9]/.test(typeName)
hasNonAlphanumeric(typeName) == \E k \in DOMAIN typeName : ~IsAlnum(typeName[k])

defaultTypeNameTransformer(n) ==
    IF includes(n, <<"_">>)
    THEN LET parts == splitChar(n, 1, "_", <<>>)
         IN  joinParts([k \in DOMAIN parts |-> capitalizePart(parts[k])])
    ELSE toUpperCase(charAt0(n)) \o slice1(n)

\* the body of the loop of buildTypeNameOverrides
typeOverrideStep(entries, typeName) ==
    IF ~hasNonAlphanumeric(typeName) THEN entries
    ELSE LET defaultName == defaultTypeNameTransformer(typeName)
         IN  IF defaultName = <<>> \/ defaultName = typeName THEN entries
             ELSE IF ~overridesHas(entries, defaultName)
                  THEN Append(entries, [from |-> defaultName, to |-> typeName])
                  ELSE entries

RECURSIVE typeOverridesFrom(_, _, _)
typeOverridesFrom(entries, mappings, i) ==
    IF i > Len(mappings) THEN entries
    ELSE typeOverridesFrom(typeOverrideStep(entries, mappings[i].typeName),
                           mappings, i + 1)

buildTypeNameOverrides(mappings) == typeOverridesFrom(<<>>, mappings, 1)

\* a word boundary is the same place in a line as in the whole source
applyTypeNameOverrides(lines, entries) ==
    IF Len(entries) = 0 THEN lines
    ELSE Array([k \in DOMAIN lines |->
                  applyEntries(lines[k], sortLongestFirst(entries), 1)])

\* the name of the type alias of a line
aliasLength(line) ==
    IF \E k \in DOMAIN line : line[k] = " "
    THEN (CHOOSE k \in DOMAIN line :
             line[k] = " " /\ \A j \in 1..(k - 1) : line[j] # " ") - 1
    ELSE Len(line)

aliasOf(line) == SubSeq(line, 1, aliasLength(line))

transformTypeNames(lines, preserveTypeNames) ==
    Array([k \in DOMAIN lines |->
        LET originalName == aliasOf(lines[k])
            transformedName ==
                IF preserveTypeNames THEN originalName
                ELSE defaultTypeNameTransformer(originalName)
        IN  transformedName
            \o SubSeq(lines[k], aliasLength(lines[k]) + 1, Len(lines[k]))])

\* what generateContent does to the type-inference source the generator
\* returned
namedTypes(lines, mappings) ==
    LET withSchemaNames ==
            Array([k \in DOMAIN lines |->
                applySchemaNameOverrides(lines[k],
                    buildSchemaNameOverrides(mappings).entries)])
        typeNameOverrides == buildTypeNameOverrides(mappings)
        withTypeNames == applyTypeNameOverrides(withSchemaNames, typeNameOverrides)
        preserveTypeNames ==
            \E k \in DOMAIN mappings : hasNonAlphanumeric(mappings[k].typeName)
    IN  transformTypeNames(withTypeNames, preserveTypeNames)

MaxTypes == 2

TypeNames ==
    { <<"a", "E">>, <<"A", "E">>, <<"a", "_", "e">>, <<"A", "_", "T">>,
      <<"A", "t">>, <<"a", "$", "t">> }

\* the mapping the collector pushes for a type whose validator has the name
\* the generator gives it
TypeMappingOf(typeName) ==
    [typeName |-> typeName, schemaName |-> toSchemaVariableName(typeName, FALSE)]

\* the lists of at most k mappings of types of different names
RECURSIVE TypeMappingLists(_)
TypeMappingLists(k) ==
    IF k = 0 THEN { <<>> }
    ELSE LET shorter == TypeMappingLists(k - 1)
         IN  shorter
             \cup { Append(ms, TypeMappingOf(t)) :
                      ms \in { l \in shorter : Len(l) = k - 1 },
                      t \in TypeNames }

\* the line the generator writes for a type: it names the alias as the
\* type is named, or as the default transformer names it
InferredLines(mapping) ==
    { nm \o <<" ">> \o toSchemaVariableName(mapping.typeName, FALSE) :
        nm \in { mapping.typeName, defaultTypeNameTransformer(mapping.typeName) } }

RECURSIVE InferredSources(_)
InferredSources(mappings) ==
    IF mappings = <<>> THEN { <<>> }
    ELSE { <<l>> \o rest : l \in InferredLines(Head(mappings)),
                           rest \in InferredSources(Tail(mappings)) }

TypesInit ==
    /\ typeMappings \in
          { ms \in TypeMappingLists(MaxTypes) :
              /\ ms # <<>>
              /\ \A i, j \in DOMAIN ms :
                    i # j => ms[i].typeName # ms[j].typeName }
    /\ typesPc = "getInferredTypes"
    /\ inferredTypes = <<>>
    /\ NamingIdle
    /\ RunIdle
    /\ OverridesIdle
    /\ FormatIdle
    /\ ApplyIdle
    /\ EncodingIdle
    /\ ConfigIdle

\* let typesContent = getInferredTypes(zodSchemasImportPath)
GetInferredTypes ==
    /\ typesPc = "getInferredTypes"
    /\ inferredTypes' \in InferredSources(typeMappings)
    /\ typesPc' = "inferred"
    /\ UNCHANGED typeMappings
    /\ UNCHANGED <<namingVars, runVars, overrideVars, formatVars, applyVars,
                   encodingVars, configVars>>

\* typesContent = applySchemaNameOverrides(...) ... transformTypeNames(...)
NameTypes ==
    /\ typesPc = "inferred"
    /\ inferredTypes' = namedTypes(inferredTypes, typeMappings)
    /\ typesPc' = "named"
    /\ UNCHANGED typeMappings
    /\ UNCHANGED <<namingVars, runVars, overrideVars, formatVars, applyVars,
                   encodingVars, configVars>>

TypesNext == GetInferredTypes \/ NameTypes

SpecTypes == TypesInit /\ [][TypesNext]_vars

(***************************************************************************)
(* Specification of a run over a file whose root declaration is            *)
(* MergeDeep<A, B> or MergeDeepStrict<A, B>: A is a type literal, or the    *)
(* name DatabaseGenerated, which the file declares as a type literal, as   *)
(* another type, or not at all; B is a type literal or a name.             *)
(***************************************************************************)
SchemaProperty(k, Body(_)) ==
    [name |-> SchemaNameAt(k), members |-> Body(SchemaNameAt(k))]

TypeLiteralArgument(schemas) ==
    [kind |-> "TypeLiteral", typeName |-> "", schemas |-> schemas]

TypeReferenceArgument(typeName) ==
    [kind |-> "TypeReference", typeName |-> typeName, schemas |-> <<>>]

\* the schemas the first argument declares
FirstSchemas ==
    { <<>>,
      << SchemaProperty(1, EnumsOnlyBody) >>,
      << SchemaProperty(1, ReferringBody) >>,
      << SchemaProperty(1, PlainTableBody), SchemaProperty(2, EnumsOnlyBody) >>,
      << SchemaProperty(1, ReferringBody), SchemaProperty(2, EnumsOnlyBody) >> }

\* the second argument: {}, { b: ... }, { a: ... } referring to the enum of
\* b, and the name of a type
SecondArguments ==
    { TypeLiteralArgument(<<>>),
      TypeLiteralArgument(<< SchemaProperty(2, EnumsOnlyBody) >>),
      TypeLiteralArgument(<< SchemaProperty(1, ReferringBody) >>),
      TypeReferenceArgument("Overrides") }

\* the first argument and the type aliases of the file
FirstArguments ==
    { [first |-> TypeLiteralArgument(ss), aliases |-> <<>>] : ss \in FirstSchemas }
    \cup { [first |-> TypeReferenceArgument("DatabaseGenerated"),
             aliases |-> << [name |-> "DatabaseGenerated",
                             type |-> TypeLiteralArgument(ss)] >>] :
             ss \in FirstSchemas }
    \cup { [first |-> TypeReferenceArgument("DatabaseGenerated"),
             aliases |-> <<>>],
           [first |-> TypeReferenceArgument("DatabaseGenerated"),
             aliases |-> << [name |-> "DatabaseGenerated",
                             type |-> TypeReferenceArgument("Other")] >>] }

MergeSourceFiles ==
    { [root |-> root, json |-> TRUE, schemas |-> <<>>,
       typeArguments |-> <<a.first, b>>, aliases |-> a.aliases] :
        root \in {"MergeDeep", "MergeDeepStrict"},
        a \in FirstArguments, b \in SecondArguments }
    \cup { [root |-> root, json |-> TRUE, schemas |-> <<>>,
             typeArguments |-> <<>>, aliases |-> <<>>] :
             root \in {"MergeDeep", "MergeDeepStrict"} }

MergeInit ==
    /\ sourceText \in MergeSourceFiles
    /\ requested \in DistinctRequestedLists
    /\ opts \in { [schema |-> requested, processDependencies |-> d,
                   namingConfig |-> defaultNamingConfig] : d \in BOOLEAN }
    /\ pc = "resolveSchemas"
    /\ loopIndex = 1
    /\ parsedTypes = EmptyText
    /\ schemaNameMappings = <<>>
    /\ flattened = <<>>
    /\ generated = FALSE
    /\ schemaNameOverrides = <<>>
    /\ errors = <<>>
    /\ error = ""
    /\ written = {}
    /\ NamingIdle
    /\ OverridesIdle
    /\ LaterIdle

SpecMerge == MergeInit /\ [][RunNext]_vars

(***************************************************************************)
(* The runs over input files whose first schema has one of the bodies      *)
(* below, written with the names of the bodies above, and whose second     *)
(* schema, where there is one, declares the enum e.                        *)
(***************************************************************************)
NumericMapOfStringsType ==
    TypeNode("TypeReference", <<Kw("Record<number, string>")>>, <<>>, 0)

NumericMapOfUnknownType ==
    TypeNode("TypeReference", <<Kw("Record<number, unknown>")>>, <<>>, 0)

\* Enums: { e: "p" | "q" };
\* CompositeTypes: { k: { z: Record<number, string> } };
\* Functions: { f: { Args: { y: string }; Returns: Record<number, unknown> } }
NumericMapsBody(self) ==
    << Member(KeyEnums, << EnumE >>),
       Member(KeyCompositeTypes,
        << Property(<<"k">>,
               TypeLiteral(<< Property(<<"z">>, NumericMapOfStringsType) >>)) >>),
       Member(KeyFunctions,
        << FunctionEntry(<<"f">>,
            << Property(ArgsText, TypeLiteral(<< Property(<<"y">>, StringType) >>)),
               Property(ReturnsText, NumericMapOfUnknownType) >>) >>) >>

TableRefType(q, schema, n, op) ==
    TypeNode("IndexedAccessType", <<RefTok(q, schema, KeyTables, n, op)>>, <<>>, 0)

\* Enums: { e: "p" | "q" };
\* Tables: { t: { Row: { x: string } } };
\* Views: { v: { Row: {
\*     x: Database["self"]["Tables"]["t"]["Row"];
\*     y: Database['self']['Tables']['t']['Row'];
\*     z: Database["self"]["Tables"]["u"]["Row"];
\*     w: Database["self"]["Enums"]["n"];
\*     e: Database["self"]["Enums"]["e"] | Database["self"]["Enums"]["e"] } } }
PathsBody(self) ==
    << Member(KeyEnums, << EnumE >>),
       Member(KeyTables, << TableEntry(<<"t">>, << RowOf(StringType) >>) >>),
       Member(KeyViews,
        << TableEntry(<<"v">>,
            << Property(RowText, TypeLiteral(
                << Property(<<"x">>, TableRefType(DQ, self, <<"t">>, RowText)),
                   Property(<<"y">>, TableRefType(SQ, self, <<"t">>, RowText)),
                   Property(<<"z">>, TableRefType(DQ, self, <<"u">>, RowText)),
                   Property(<<"w">>, EnumRefType(DQ, self, <<"n">>)),
                   Property(<<"e">>, UnionType(EnumRefType(DQ, self, <<"e">>),
                                               EnumRefType(DQ, self, <<"e">>))) >>)) >>) >>) >>

\* Enums: { e: "p" | "q" };
\* Tables: { t: { Row: { x: string } }; "t-u": { Row: { x: string } } }
NamesBody(self) ==
    << Member(KeyEnums, << EnumE >>),
       Member(KeyTables,
        << TableEntry(<<"t">>, << RowOf(StringType) >>),
           TableEntry(<<"t", "-", "u">>, << RowOf(StringType) >>) >>) >>

\* Enums: { e: "p" | "q" }; Tables: { ae_schema: { Row: { x: string } } }
SuffixNamesBody(self) ==
    << Member(KeyEnums, << EnumE >>),
       Member(KeyTables,
        << TableEntry(<<"a", "e", "_", "s", "c", "h", "e", "m", "a">>,
                      << RowOf(StringType) >>) >>) >>

FlattenBodies(self) ==
    { NumericMapsBody(self), PathsBody(self), NamesBody(self),
      SuffixNamesBody(self) }

FlattenSourceFiles ==
    { [root |-> "TypeLiteral", json |-> json, schemas |-> ss] :
        json \in BOOLEAN,
        ss \in { << [name |-> SchemaNameAt(1), members |-> body] >> \o rest :
                   body \in FlattenBodies(SchemaNameAt(1)),
                   rest \in { <<>>,
                              << [name |-> SchemaNameAt(2),
                                  members |-> EnumsOnlyBody(SchemaNameAt(2))] >> } } }

\* tableSchemaPattern: '{schema}_{table}_{operation}',
\* enumSchemaPattern: '{schema}_{name}'
SeparatedNamingConfig ==
    [defaultNamingConfig EXCEPT
        !.tableSchemaPattern =
            Placeholder(KeySchema) \o <<"_">> \o Placeholder(KeyTable)
            \o <<"_">> \o Placeholder(KeyOperation),
        !.enumSchemaPattern =
            Placeholder(KeySchema) \o <<"_">> \o Placeholder(KeyName)]

FlattenConfigs == { defaultNamingConfig, SeparatedNamingConfig }

FlattenInit ==
    /\ sourceText \in FlattenSourceFiles
    /\ requested \in DistinctRequestedLists
    /\ opts \in { [schema |-> requested, processDependencies |-> d,
                   namingConfig |-> c] : d \in BOOLEAN, c \in FlattenConfigs }
    /\ pc = "resolveSchemas"
    /\ loopIndex = 1
    /\ parsedTypes = EmptyText
    /\ schemaNameMappings = <<>>
    /\ flattened = <<>>
    /\ generated = FALSE
    /\ schemaNameOverrides = <<>>
    /\ errors = <<>>
    /\ error = ""
    /\ written = {}
    /\ NamingIdle
    /\ OverridesIdle
    /\ LaterIdle

SpecFlatten == FlattenInit /\ [][RunNext]_vars

(***************************************************************************)
(* What the properties below say of a file and of a flattened text.        *)
(***************************************************************************)
\* the schemas of the file named nm
SchemasNamed(nm) ==
    { i \in DOMAIN sourceText.schemas : sourceText.schemas[i].name = nm }

\* the name a type string declares
declaredName(declared) ==
    LET line == declared.text[1]
        eq == CHOOSE k \in DOMAIN line :
                /\ line[k] = Kw(" = ")
                /\ \A j \in 1..(k - 1) : line[j] # Kw(" = ")
    IN  Array([j \in 1..(eq - 2) |-> line[j + 1].c])

declarationHead(nm) == <<Kw("export type ")>> \o Ident(nm) \o <<Kw(" = ")>>

\* the text declares nm
declaresName(text, nm) ==
    \E l \in DOMAIN text : startsWithAt(text[l], 1, declarationHead(nm))

\* the text declares nm as typeToks
declaresAs(text, nm, typeToks) ==
    \E l \in DOMAIN text :
        startsWithAt(text[l], 1, declarationHead(nm) \o typeToks \o <<Kw(";")>>)

\* the body of the declaration of nm in the text has the member `member`
\* typed typeToks
memberTypedIn(text, nm, member, typeToks) ==
    \E l \in DOMAIN text :
        /\ startsWithAt(text[l], 1, declarationHead(nm) \o <<Kw("{")>>)
        /\ \E m \in (l + 1)..Len(text) :
            /\ text[m] = Ident(member) \o <<Kw(": ")>> \o typeToks \o <<Kw(";")>>
            /\ \A j \in (l + 1)..(m - 1) : ~startsWithAt(text[j], 1, <<Kw("}")>>)

\* a nested path Database[schema]['Enums'][n], in either quote style
isEnumPath(tok, schema, n) ==
    /\ tok.t = "ref"
    /\ tok.schema = schema
    /\ tok.cat = KeyEnums
    /\ tok.name = n
    /\ tok.op = <<>>

textHasEnumPath(text, schema, n) ==
    \E l \in DOMAIN text : \E k \in DOMAIN text[l] : isEnumPath(text[l][k], schema, n)

\* the Tables, Views and Functions bodies of the schema refer to the enum
bodiesReferTo(schemaNode, schema, n) ==
    \E m \in DOMAIN schemaNode.members :
        /\ schemaNode.members[m].key \in {KeyTables, KeyViews, KeyFunctions}
        /\ \E e \in DOMAIN schemaNode.members[m].entries :
            \E ty \in entryTypes(schemaNode.members[m],
                                 schemaNode.members[m].entries[e]) :
                \E tok \in typeTokens(ty) : isEnumPath(tok, schema, n)

\* the enums the schema defines
EnumsOf(schemaNode) ==
    UNION { { schemaNode.members[m].entries[e].name :
                e \in DOMAIN schemaNode.members[m].entries } :
            m \in { m \in DOMAIN schemaNode.members :
                      schemaNode.members[m].key = KeyEnums } }

enumName(schema, n) ==
    formatName(opts.namingConfig.enumPattern, namePlaceholders(schema, n),
               opts.namingConfig)

\* run i emitted the enum n of the schema
emitsEnum(i, schema, n) ==
    \E j \in DOMAIN flattened[i].declarations :
        /\ flattened[i].declarations[j].category = "Enum"
        /\ flattened[i].declarations[j].origin = schema
        /\ declaredName(flattened[i].declarations[j]) = enumName(schema, n)

\* the members of the Tables, Views and Functions entries of the schema
\* that satisfy Test: <<member, entry, position>>
membersWhere(schemaNode, keys, Test(_)) ==
    UNION { UNION {
        { <<m, e, o>> :
            o \in { o \in DOMAIN (IF schemaNode.members[m].key = KeyFunctions
                                 THEN schemaNode.members[m].entries[e].members
                                 ELSE schemaNode.members[m].entries[e].ops) :
                     Test(IF schemaNode.members[m].key = KeyFunctions
                          THEN schemaNode.members[m].entries[e].members[o]
                          ELSE schemaNode.members[m].entries[e].ops[o]) } } :
        e \in DOMAIN schemaNode.members[m].entries } :
        m \in { m \in DOMAIN schemaNode.members : schemaNode.members[m].key \in keys } }

entriesWhere(schemaNode, key, Test(_)) ==
    UNION { { <<m, e>> :
                e \in { e \in DOMAIN schemaNode.members[m].entries :
                          Test(schemaNode.members[m].entries[e]) } } :
            m \in { m \in DOMAIN schemaNode.members : schemaNode.members[m].key = key } }

isFlattenedOperation(op) ==
    op.type.kind \in {"TypeLiteral", "TupleType"} /\ ~isEmptyArrayOrTuple(op.type)

isFlattenedFunctionMember(member) ==
    /\ member.name \in {ArgsText, ReturnsText}
    /\ \A k \in DOMAIN member.type.toks : member.type.toks[k] \notin NumericRecordTokens

isEnumEntry(entry) == entry.type.kind \in {"UnionType", "LiteralType"}

isCompositeEntry(entry) == entry.type.kind = "TypeLiteral"

\* N + M + K + 2F
expectedDeclarations(schemaNode) ==
    Cardinality(membersWhere(schemaNode, {KeyTables, KeyViews}, isFlattenedOperation))
    + Cardinality(entriesWhere(schemaNode, KeyEnums, isEnumEntry))
    + Cardinality(entriesWhere(schemaNode, KeyCompositeTypes, isCompositeEntry))
    + Cardinality(membersWhere(schemaNode, {KeyFunctions}, isFlattenedFunctionMember))

\* the declarations run i emitted for its own schema
ownDeclarations(i) ==
    { j \in DOMAIN flattened[i].declarations :
        /\ flattened[i].declarations[j].origin = flattened[i].schema
        /\ flattened[i].declarations[j].category # "Json" }

(***************************************************************************)
(* Properties.                                                             *)
(***************************************************************************)
\* C1: flattening a schema with N table and view operations, M enums, K
\* composite types and F functions emits exactly N + M + K + 2F declarations
\* of that schema, the operations and members the exclusions remove not
\* counted: every Args and every Returns member yields one declaration.
C1_DeclarationCount ==
    \A i \in DOMAIN flattened :
        \A s \in SchemasNamed(flattened[i].schema) :
            Cardinality(ownDeclarations(i))
                = expectedDeclarations(sourceText.schemas[s])

\* C2: deriving the validator name of a derived validator name changes
\* nothing, in the default mode and in the preserveSeparators mode.
C2_ReDerivingKeepsName ==
    Len(derived) = 2 => derived[2] = derived[1]

\* C3: when the target schema refers to an enum of another schema and
\* dependencies are processed, the enum is emitted under the name nameFormatted
\* with the schema that defines it, and the text returned for the target
\* holds the nested path of the enum no more.
C3_ForeignEnumPulledIn ==
    \A i \in DOMAIN flattened :
        \A a \in SchemasNamed(flattened[i].schema) :
            \A b \in DOMAIN sourceText.schemas \ {a} :
                \A n \in EnumsOf(sourceText.schemas[b]) :
                    ( /\ opts.processDependencies
                      /\ bodiesReferTo(sourceText.schemas[a],
                                       sourceText.schemas[b].name, n) )
                    => /\ emitsEnum(i, sourceText.schemas[b].name, n)
                       /\ ~textHasEnumPath(flattened[i].text,
                                           sourceText.schemas[b].name, n)

\* C4: an enum of another schema is emitted exactly when dependencies are
\* processed and the Tables, Views or Functions of the target schema itself
\* refer to it; when dependencies are not processed every declaration comes
\* from the target schema.
C4_ForeignEnumOnlyWhenTargetRefers ==
    \A i \in DOMAIN flattened :
        /\ \A t \in SchemasNamed(flattened[i].schema) :
            \A s \in DOMAIN sourceText.schemas \ {t} :
                \A n \in EnumsOf(sourceText.schemas[s]) :
                    emitsEnum(i, sourceText.schemas[s].name, n)
                    <=> ( /\ opts.processDependencies
                          /\ bodiesReferTo(sourceText.schemas[t],
                                           sourceText.schemas[s].name, n) )
        /\ ~opts.processDependencies =>
            \A j \in DOMAIN flattened[i].declarations :
                flattened[i].declarations[j].origin \in {flattened[i].schema, <<>>}

\* C5: a mapping whose default validator name an earlier mapping has, and
\* whose configured name differs from that of the first such mapping, is not
\* applied: the name of the first is the one in force, and the conflict is
\* reported.
C5_FirstWriteWins ==
    mappingIndex > Len(givenMappings) =>
        \A j \in DOMAIN givenMappings :
            LET d == toSchemaVariableName(givenMappings[j].typeName, FALSE)
                first == CHOOSE f \in DOMAIN givenMappings :
                    /\ toSchemaVariableName(givenMappings[f].typeName, FALSE) = d
                    /\ \A g \in 1..(f - 1) :
                        toSchemaVariableName(givenMappings[g].typeName, FALSE) # d
                inForce == IF overridesHas(overrides.entries, d)
                           THEN overridesGet(overrides.entries, d)
                           ELSE d
            IN  givenMappings[j].schemaName # givenMappings[first].schemaName
                => /\ inForce = givenMappings[first].schemaName
                   /\ \E w \in DOMAIN overrides.warnings :
                        /\ overrides.warnings[w].name = d
                        /\ overrides.warnings[w].ignoring = givenMappings[j].schemaName

\* C6: across the schemas of one run no name is declared twice, the enums
\* pulled in from other schemas included.
C6_NamesDeclaredOnce ==
    \A i1, i2 \in DOMAIN flattened :
        \A j1 \in DOMAIN flattened[i1].declarations :
            \A j2 \in DOMAIN flattened[i2].declarations :
                ( /\ <<i1, j1>> # <<i2, j2>>
                  /\ flattened[i1].declarations[j1].category # "Json"
                  /\ flattened[i2].declarations[j2].category # "Json" )
                => declaredName(flattened[i1].declarations[j1])
                     # declaredName(flattened[i2].declarations[j2])

\* C7: rewriting the references of a text that is already rewritten, for the
\* same enums and composite types, changes nothing.
C7_RewritingTwiceChangesNothing ==
    \A i \in DOMAIN flattened :
        rewriteReferences(flattened[i].text, flattened[i].collector,
                          flattened[i].schema)
            = flattened[i].text

\* the columns, arguments and attributes of the body of a property
emptyMembers(node) ==
    { p \in DOMAIN node.type.props : isEmptyArrayOrTuple(node.type.props[p].type) }

operationName(schema, table, op) ==
    formatName(opts.namingConfig.tableOperationPattern,
               tablePlaceholders(schema, table.name, op.name), opts.namingConfig)

functionMemberName(schema, func, member) ==
    formatName(IF member.name = ArgsText
               THEN opts.namingConfig.functionArgsPattern
               ELSE opts.namingConfig.functionReturnsPattern,
               functionPlaceholders(schema, func.name), opts.namingConfig)

UnknownArrayText == <<Kw("unknown[]")>>

\* the columns typed [] of the operations of the tables and views of the
\* schema are typed unknown[] in the text
emptyColumnsNormalized(text, schemaNode) ==
    \A m \in DOMAIN schemaNode.members :
        schemaNode.members[m].key \in {KeyTables, KeyViews} =>
            \A e \in DOMAIN schemaNode.members[m].entries :
                \A o \in DOMAIN schemaNode.members[m].entries[e].ops :
                    LET table == schemaNode.members[m].entries[e]
                        op == table.ops[o]
                    IN  \A p \in emptyMembers(op) :
                            memberTypedIn(text,
                                operationName(schemaNode.name, table, op),
                                op.type.props[p].name, UnknownArrayText)

\* the Args and Returns members typed [], and their arguments typed [], are
\* typed unknown[] in the text
emptyFunctionMembersNormalized(text, schemaNode) ==
    \A m \in DOMAIN schemaNode.members :
        schemaNode.members[m].key = KeyFunctions =>
            \A e \in DOMAIN schemaNode.members[m].entries :
                \A o \in DOMAIN schemaNode.members[m].entries[e].members :
                    LET func == schemaNode.members[m].entries[e]
                        member == func.members[o]
                        nm == functionMemberName(schemaNode.name, func, member)
                    IN  member.name \in {ArgsText, ReturnsText} =>
                            /\ isEmptyArrayOrTuple(member.type)
                                => declaresAs(text, nm, UnknownArrayText)
                            /\ \A p \in emptyMembers(member) :
                                memberTypedIn(text, nm, member.type.props[p].name,
                                              UnknownArrayText)

\* the operation entries typed [] of the schema
emptyOperations(schemaNode) ==
    membersWhere(schemaNode, {KeyTables, KeyViews},
                 LAMBDA op : isEmptyArrayOrTuple(op.type))

emptyOperationName(schemaNode, slot) ==
    operationName(schemaNode.name,
                  schemaNode.members[slot[1]].entries[slot[2]],
                  schemaNode.members[slot[1]].entries[slot[2]].ops[slot[3]])

noEmptyTuple(text) ==
    \A l \in DOMAIN text : \A k \in DOMAIN text[l] : text[l][k] # Kw("[]")

\* C8: in the text collectTypes returns, every table column and every
\* function member declared [] is typed unknown[], an operation entry
\* declared [] is not emitted at all, and nothing is typed [].
C8_EmptyArraysNormalized ==
    \A i \in DOMAIN flattened :
        /\ noEmptyTuple(flattened[i].text)
        /\ \A s \in SchemasNamed(flattened[i].schema) :
            /\ emptyColumnsNormalized(flattened[i].text, sourceText.schemas[s])
            /\ emptyFunctionMembersNormalized(flattened[i].text,
                                              sourceText.schemas[s])
            /\ \A slot \in emptyOperations(sourceText.schemas[s]) :
                ~declaresName(flattened[i].text,
                              emptyOperationName(sourceText.schemas[s], slot))

\* C8 as stated: the operation entries declared [] too appear in the text,
\* typed unknown[].
C8_EveryEmptyMemberEmitted ==
    \A i \in DOMAIN flattened :
        /\ noEmptyTuple(flattened[i].text)
        /\ \A s \in SchemasNamed(flattened[i].schema) :
            /\ emptyColumnsNormalized(flattened[i].text, sourceText.schemas[s])
            /\ emptyFunctionMembersNormalized(flattened[i].text,
                                              sourceText.schemas[s])
            /\ \A slot \in emptyOperations(sourceText.schemas[s]) :
                declaresAs(flattened[i].text,
                           emptyOperationName(sourceText.schemas[s], slot),
                           UnknownArrayText)

\* a schema with a column, a function member and an operation entry declared
\* [] has been flattened
C8_Witness ==
    \E i \in DOMAIN flattened :
        \E s \in SchemasNamed(flattened[i].schema) :
            /\ emptyOperations(sourceText.schemas[s]) # {}
            /\ membersWhere(sourceText.schemas[s], {KeyTables, KeyViews},
                            LAMBDA op : emptyMembers(op) # {}) # {}
            /\ membersWhere(sourceText.schemas[s], {KeyFunctions},
                            LAMBDA member : isEmptyArrayOrTuple(member.type)) # {}

\* the top-level keys of the root declaration, in source order
rootKeys ==
    IF sourceText.root = "TypeLiteral"
    THEN Array([i \in DOMAIN sourceText.schemas |-> sourceText.schemas[i].name])
    ELSE <<>>

RECURSIVE concatenated(_, _)
concatenated(results, i) ==
    IF i = 0 THEN EmptyText
    ELSE concatText(concatenated(results, i - 1), results[i].text)

\* C9: with no schema requested, the schemas flattened so far are the first
\* keys of the root declaration, each once and in source order, the text is
\* the concatenation of their results in that order, and the generator is
\* called only when every key has been flattened.
C9_DiscoveredSchemasInOrder ==
    (requested = <<>> /\ pc \notin {"resolveSchemas", "checkSchemas"}) =>
        /\ loopIndex - 1 <= Len(rootKeys)
        /\ Array([i \in DOMAIN flattened |-> flattened[i].schema])
             = SubSeq(rootKeys, 1, loopIndex - 1)
        /\ parsedTypes = concatenated(flattened, Len(flattened))
        /\ pc \in {"returned", "done"} => Len(flattened) = Len(rootKeys)
        /\ generated => Len(flattened) = Len(rootKeys)

\* with no schema requested, every schema of a file of two or more has been
\* flattened and generateContent has returned
C9_Witness ==
    /\ requested = <<>>
    /\ pc = "returned"
    /\ Len(flattened) >= 2
    /\ Len(flattened) = Len(sourceText.schemas)

\* C10: when no schema is requested and none is found, generateContent
\* throws 'No schemas specified', and nothing has been flattened, generated,
\* overridden or written.
C10_NoSchemasFailsFirst ==
    ( /\ requested = <<>>
      /\ getAllSchemas(sourceText) = <<>>
      /\ pc \notin {"resolveSchemas", "checkSchemas"} )
    => /\ pc = "threw"
       /\ error = NoSchemasSpecified
       /\ flattened = <<>>
       /\ parsedTypes = EmptyText
       /\ schemaNameMappings = <<>>
       /\ ~generated
       /\ schemaNameOverrides = <<>>
       /\ written = {}

\* no schema was requested, none was found, and the error is thrown
C10_Witness ==
    /\ requested = <<>>
    /\ getAllSchemas(sourceText) = <<>>
    /\ pc = "threw"
    /\ error = NoSchemasSpecified

\* C11: when the validator generator returns errors, generateContent throws
\* 'Failed to generate schemas'; and in a run in which generateContent has
\* thrown, no file is written.
C11_GeneratorErrorsAbortRun ==
    /\ (generated /\ errors # <<>>) =>
          /\ pc = "threw"
          /\ error = FailedToGenerate
    /\ pc = "threw" => written = {}
    /\ written # {} => (pc = "done" /\ errors = <<>> /\ error = "")

\* the schemas were flattened, the generator returned errors and
\* generateContent has thrown
C11_Witness ==
    /\ flattened # <<>>
    /\ generated
    /\ errors # <<>>
    /\ pc = "threw"

\* the value without its underscores, the first letter and every letter after
\* an underscore in upper case; the other letters in lower case, or as given
RECURSIVE wordBoundaryForm(_, _, _, _)
wordBoundaryForm(value, i, atBoundary, lowerRest) ==
    IF i > Len(value) THEN <<>>
    ELSE IF value[i] = "_" /\ \E j \in DOMAIN value : value[j] = "_"
         THEN wordBoundaryForm(value, i + 1, TRUE, lowerRest)
    ELSE << IF atBoundary THEN toUpperCaseChar(value[i])
            ELSE IF lowerRest THEN toLowerCaseChar(value[i])
            ELSE value[i] >>
         \o wordBoundaryForm(value, i + 1, FALSE, lowerRest)

\* the flag that governs the placeholder
governingFlag(key) ==
    IF key = KeySchema THEN formatConfig.capitalizeSchema
    ELSE formatConfig.capitalizeNames

\* {schema}{table}{operation} with my_schema, user_profile, insert under the
\* default configuration
isRoundTripExample ==
    /\ template = Placeholder(KeySchema) \o Placeholder(KeyTable)
                     \o Placeholder(KeyOperation)
    /\ placeholderMap = << [key |-> KeySchema, value |-> <<"m","y","_","s","c","h","e","m","a">>],
                           [key |-> KeyTable, value |-> <<"u","s","e","r","_","p","r","o","f","i","l","e">>],
                           [key |-> KeyOperation, value |-> <<"i","n","s","e","r","t">>] >>
    /\ formatConfig = defaultNamingConfig

\* C12: with capitalization enabled the value substituted is the given value
\* split on underscores, each part with its first letter in upper case and
\* its other letters in lower case, the parts joined;
\* {schema}{table}{operation} with my_schema, user_profile, insert gives
\* MySchemaUserProfileInsert.
C12_PartsCapitalizedRestLowered ==
    nameFormatted # <<>> =>
        /\ \A i \in DOMAIN placeholderMap :
              governingFlag(placeholderMap[i].key) =>
                  nameFormatted[1].values[i]
                    = wordBoundaryForm(placeholderMap[i].value, 1, TRUE, TRUE)
        /\ isRoundTripExample =>
              nameFormatted[1].result = <<"M","y","S","c","h","e","m","a","U","s","e","r","P","r","o","f","i","l","e","I","n","s","e","r","t">>

\* C12 as stated: only the first letter of each part changes.
C12_PartsCapitalized ==
    nameFormatted # <<>> =>
        /\ \A i \in DOMAIN placeholderMap :
              governingFlag(placeholderMap[i].key) =>
                  nameFormatted[1].values[i]
                    = wordBoundaryForm(placeholderMap[i].value, 1, TRUE, FALSE)
        /\ isRoundTripExample =>
              nameFormatted[1].result = <<"M","y","S","c","h","e","m","a","U","s","e","r","P","r","o","f","i","l","e","I","n","s","e","r","t">>

\* the example has been nameFormatted
C12_Witness ==
    /\ isRoundTripExample
    /\ nameFormatted # <<>>
    /\ nameFormatted[1].result = <<"M","y","S","c","h","e","m","a","U","s","e","r","P","r","o","f","i","l","e","I","n","s","e","r","t">>

\* the pattern with every {key} of a key given replaced, in one pass from left
\* to right, by the value substituted for the key
RECURSIVE substituted(_, _)
substituted(pattern, i) ==
    IF i > Len(pattern) THEN <<>>
    ELSE LET here == { e \in DOMAIN placeholderMap :
                         startsWithAt(pattern, i,
                                      Placeholder(placeholderMap[e].key)) }
         IN  IF here # {}
             THEN LET e == CHOOSE e \in here : TRUE
                  IN  nameFormatted[1].values[e]
                      \o substituted(pattern,
                              i + Len(Placeholder(placeholderMap[e].key)))
             ELSE <<pattern[i]>> \o substituted(pattern, i + 1)

\* C13: the result is the pattern with every {key} of a key given replaced by
\* the value of the key, every {key} of a key not given and all other text
\* left as it is.
C13_EveryPlaceholderSubstituted ==
    nameFormatted # <<>> => nameFormatted[1].result = substituted(template, 1)

\* C14: a placeholder is capitalized exactly when its flag is set,
\* capitalizeSchema for {schema} and capitalizeNames for the others, and
\* otherwise its value is inserted as given.
C14_FlagsGovernCapitalization ==
    nameFormatted # <<>> =>
        \A i \in DOMAIN placeholderMap :
            LET expected ==
                    IF governingFlag(placeholderMap[i].key)
                    THEN wordBoundaryForm(placeholderMap[i].value, 1, TRUE, TRUE)
                    ELSE placeholderMap[i].value
            IN  /\ nameFormatted[1].values[i] = expected
                /\ template = Placeholder(placeholderMap[i].key)
                     => nameFormatted[1].result = expected

\* the text with every maximal run of word characters that is a key of the
\* entries replaced by the value of the key, in one pass
RECURSIVE wholeWordsReplaced(_, _, _)
wholeWordsReplaced(s, i, entries) ==
    IF i > Len(s) THEN <<>>
    ELSE LET ends == { j \in i..(Len(s) + 1) :
                         /\ \A k \in i..(j - 1) : IsAlnum(s[k]) \/ s[k] = "_"
                         /\ j <= Len(s) => ~(IsAlnum(s[j]) \/ s[j] = "_") }
             j == CHOOSE j \in ends : TRUE
             word == SubSeq(s, i, j - 1)
         IN  IF j = i THEN <<s[i]>> \o wholeWordsReplaced(s, i + 1, entries)
             ELSE (IF overridesHas(entries, word)
                   THEN overridesGet(entries, word) ELSE word)
                  \o wholeWordsReplaced(s, j, entries)

\* C15: each source with the overrides applied is the source with every
\* identifier that is a key replaced by the value of the key and every other
\* identifier, also one a key begins or ends, and all other text unchanged;
\* with no override it is the source itself.
C15_WholeIdentifiersReplaced ==
    /\ applyPc # "schemas" =>
          /\ applied.schemas = wholeWordsReplaced(content, 1, contentOverrides)
          /\ contentOverrides = <<>> => applied.schemas = content
    /\ applyPc = "returnedTypes" =>
          /\ applied.types = wholeWordsReplaced(typesContent, 1, contentOverrides)
          /\ contentOverrides = <<>> => applied.types = typesContent

\* the schema properties of the first argument of the root declaration, where
\* it is a type literal or the name of a type alias that is one
firstArgumentSchemas ==
    IF sourceText.typeArguments = <<>> THEN <<>>
    ELSE IF sourceText.typeArguments[1].kind = "TypeLiteral"
         THEN sourceText.typeArguments[1].schemas
    ELSE LET named == { i \in DOMAIN sourceText.aliases :
                          /\ sourceText.aliases[i].name
                               = sourceText.typeArguments[1].typeName
                          /\ sourceText.aliases[i].type.kind = "TypeLiteral" }
         IN  IF named = {} THEN <<>>
             ELSE sourceText.aliases[CHOOSE i \in named : TRUE].type.schemas

\* the file with another second argument
withSecondArgument(second) ==
    [sourceText EXCEPT !.typeArguments = << @[1], second >>]

\* C16: for a root declaration MergeDeep<A, B> or MergeDeepStrict<A, B> the
\* schemas found and the text flattened for a schema are the same whatever B
\* is, and every schema found and every declaration flattened is of a schema
\* of A.
C16_SecondArgumentIgnored ==
    sourceText.typeArguments # <<>> =>
        /\ \A second \in SecondArguments :
              /\ getAllSchemas(withSecondArgument(second))
                   = getAllSchemas(sourceText)
              /\ \A i \in DOMAIN flattened :
                    collectTypes(withSecondArgument(second), flattened[i].schema,
                                 opts.processDependencies, opts.namingConfig).text
                      = flattened[i].text
        /\ getAllSchemas(sourceText)
             = Array([i \in DOMAIN firstArgumentSchemas |->
                        firstArgumentSchemas[i].name])
        /\ \A i \in DOMAIN flattened :
              \A j \in DOMAIN flattened[i].declarations :
                  flattened[i].declarations[j].category # "Json" =>
                      \E k \in DOMAIN firstArgumentSchemas :
                          firstArgumentSchemas[k].name
                            = flattened[i].declarations[j].origin

\* the names of the schemas of the root declaration, where it has one of the
\* accepted shapes
keysOfRoot ==
    IF sourceText.root \in {"TypeLiteral", "InterfaceDeclaration"}
    THEN { sourceText.schemas[i].name : i \in DOMAIN sourceText.schemas }
    ELSE {}

sampledPairs == 1..(min(Len(buffer), SampleLength) \div 2)

\* more than 80% of the pairs of the first hundred bytes are a byte of an
\* ASCII character other than NUL and a null byte, in the order given
mostPairsAre(asciiAt, nullAt) ==
    LET matching == { k \in sampledPairs :
                        /\ buffer[2 * k - 1 + nullAt] = 0
                        /\ buffer[2 * k - 1 + asciiAt] \in 1..127 }
    IN  Cardinality(matching) * 100 > 80 * Cardinality(sampledPairs)

startsWith(mark) ==
    /\ Len(buffer) >= Len(mark)
    /\ SubSeq(buffer, 1, Len(mark)) = mark

\* C18: a buffer that starts with FF FE is utf-16le, with FE FF utf-16be,
\* with EF BB BF utf-8, whatever follows; a buffer without such a mark is
\* utf-8 when it has fewer than 4 bytes, and otherwise utf-16le when more
\* than 80% of the pairs of its first 100 bytes are an ASCII byte and a null
\* byte, utf-16be when they are a null byte and an ASCII byte, utf-8 when
\* neither.
C18_MarkThenPattern ==
    encoding # <<>> =>
        encoding[1] =
            IF startsWith(<<255, 254>>) THEN "utf-16le"
            ELSE IF startsWith(<<254, 255>>) THEN "utf-16be"
            ELSE IF startsWith(<<239, 187, 191>>) THEN "utf-8"
            ELSE IF Len(buffer) < 4 THEN "utf-8"
            ELSE IF mostPairsAre(0, 1) THEN "utf-16le"
            ELSE IF mostPairsAre(1, 0) THEN "utf-16be"
            ELSE "utf-8"

\* a buffer without a mark, of more than 100 bytes, whose first 100 bytes
\* have the pattern and whose bytes after them do not, has been classified
C18_Witness ==
    /\ encoding = << "utf-16le" >>
    /\ Len(buffer) > SampleLength
    /\ ~startsWith(<<255, 254>>)
    /\ buffer[SampleLength + 2] # 0

\* the candidates that exist, by their place in the order of the names
existingCandidates ==
    { i \in DOMAIN CONFIG_FILE_NAMES :
        cwd \o << CONFIG_FILE_NAMES[i] >> \in existingFiles }

\* the file of the path given, which is taken from the working directory
\* unless it is absolute
fileOfPathGiven ==
    IF configPathOverride.path[1] = "/" THEN configPathOverride.path
    ELSE cwd \o configPathOverride.path

\* loadConfig has returned or thrown
configSettled == configPc \in { "returned", "threw" }

\* a path is given: the option is present and names something
pathGiven == configPathOverride.given /\ Len(configPathOverride.path) > 0

\* C19: without a path given, loadConfig returns the empty configuration
\* when no candidate exists, and otherwise loads the candidate that exists
\* and comes first in the order of the names, and no other; with a path
\* given whose file does not exist it throws 'Configuration file not found'
\* and has loaded nothing.
C19_FirstCandidateOrNotFound ==
    /\ (~pathGiven /\ configSettled /\ existingCandidates = {}) =>
          /\ configPc = "returned"
          /\ loadedConfig = EmptyConfig
          /\ configPath = <<>>
    /\ (~pathGiven /\ existingCandidates # {} /\ configPc # "loadConfig") =>
          LET first == CHOOSE i \in existingCandidates :
                           \A j \in existingCandidates : i <= j
          IN  /\ configPath = cwd \o << CONFIG_FILE_NAMES[first] >>
              /\ configSettled => loadedConfig.kind = "error"
                                    \/ loadedConfig = ConfigOf(configPath)
              /\ loadedConfig # EmptyConfig
    /\ (pathGiven /\ fileOfPathGiven \notin existingFiles
          /\ configPc # "loadConfig") =>
          /\ configPc = "threw"
          /\ loadedConfig.kind = "error"
          /\ loadedConfig.message = "Configuration file not found"
          /\ configPath = <<>>

\* a path whose file does not exist was given where candidates exist, and
\* loadConfig has thrown
C19_Witness ==
    /\ pathGiven
    /\ fileOfPathGiven \notin existingFiles
    /\ existingCandidates # {}
    /\ configPc = "threw"

\* the place of a category in the order Tables/Views, Enums, CompositeTypes,
\* Functions
categoryRank(category) ==
    CASE category = "TableOperation" -> 1
      [] category = "Enum" -> 2
      [] category = "CompositeType" -> 3
      [] category \in { "FunctionArgs", "FunctionReturns" } -> 4
      [] OTHER -> 0

\* C20: the declarations transformTypes flattens from a schema come in the
\* order Tables/Views, Enums, CompositeTypes, Functions of their categories,
\* whatever the order of the category keys in the source.  The order is
\* taken as transformTypes collects them, which is their order in the text
\* returned but for the enum declarations, which the text has first.
C20_FixedCategoryOrder ==
    \A i \in DOMAIN flattened :
        LET collected == flattened[i].collector.typeStrings
        IN  \A j, k \in DOMAIN collected :
                (/\ j < k
                 /\ collected[j].origin = flattened[i].schema
                 /\ collected[k].origin = flattened[i].schema)
                    => categoryRank(collected[j].category)
                         <= categoryRank(collected[k].category)

\* the mappings the flattenings up to the i-th collected, in their order
RECURSIVE mappingsCollected(_)
mappingsCollected(i) ==
    IF i = 0 THEN <<>>
    ELSE mappingsCollected(i - 1) \o flattened[i].collector.mappings

\* C21: when the validator-name overrides are computed every schema asked
\* for has been flattened, in the order asked; the accumulator then holds
\* what the flattenings collected, in their order, with a mapping for every
\* declaration of a schema in the flattened texts, and the overrides are
\* computed from it; before that no override exists and nothing is written.
C21_OverridesAfterAllFlattened ==
    /\ ~generated => schemaNameOverrides = <<>> /\ written = {}
    /\ generated =>
          /\ Len(flattened) = Len(opts.schema)
          /\ \A i \in DOMAIN flattened : flattened[i].schema = opts.schema[i]
          /\ schemaNameMappings = mappingsCollected(Len(flattened))
          /\ schemaNameOverrides
               = buildSchemaNameOverrides(schemaNameMappings).entries
          /\ \A i \in DOMAIN flattened :
                \A j \in DOMAIN flattened[i].declarations :
                    flattened[i].declarations[j].category # "Json" =>
                        \E k \in DOMAIN schemaNameMappings :
                            schemaNameMappings[k].typeName
                              = declaredName(flattened[i].declarations[j])

\* the overrides have been computed after two schemas were flattened, each
\* with declarations
C21_Witness ==
    /\ generated
    /\ Len(flattened) = 2
    /\ \A i \in DOMAIN flattened : flattened[i].collector.mappings # <<>>

\* the body the declaration of a function member is to have: boolean for
\* the boolean type, {} for Record<PropertyKey, never>, and otherwise the
\* text of the body as the flattening reads it
expectedFunctionBody(type) ==
    IF type.kind = "BooleanKeyword" THEN << <<Kw("boolean")>> >>
    ELSE IF type = NoPropertiesType THEN << <<Kw("{}")>> >>
    ELSE getText(type)

\* the declarations the Args and Returns members of the functions of the
\* schema are to have
expectedFunctionDeclarations(schemaNode) ==
    UNION { UNION { {
        appendToLastLine(
            typeString(
                formatName(IF schemaNode.members[m].entries[e].members[o].name = ArgsText
                           THEN opts.namingConfig.functionArgsPattern
                           ELSE opts.namingConfig.functionReturnsPattern,
                           functionPlaceholders(schemaNode.name,
                               schemaNode.members[m].entries[e].name),
                           opts.namingConfig),
                expectedFunctionBody(
                    schemaNode.members[m].entries[e].members[o].type)),
            <<Kw(";")>>) :
          o \in { o \in DOMAIN schemaNode.members[m].entries[e].members :
                    schemaNode.members[m].entries[e].members[o].name
                      \in {ArgsText, ReturnsText} } } :
        e \in DOMAIN schemaNode.members[m].entries } :
        m \in { m \in DOMAIN schemaNode.members :
                  schemaNode.members[m].key = KeyFunctions } }

\* C22: every declaration flattened from an Args or Returns member of a
\* function has the body boolean when the member is of the boolean type, {}
\* when it is Record<PropertyKey, never>, and otherwise the text of the body
\* of the member.
C22_FunctionBodies ==
    \A i \in DOMAIN flattened :
        \A j \in DOMAIN flattened[i].collector.typeStrings :
            LET declared == flattened[i].collector.typeStrings[j]
                source == transformedSourceFile(sourceText)
            IN  declared.category \in {"FunctionArgs", "FunctionReturns"} =>
                    \E n \in DOMAIN source.schemas :
                        /\ source.schemas[n].name = flattened[i].schema
                        /\ declared.text
                             \in expectedFunctionDeclarations(source.schemas[n])

\* the tokens of the first line of a type string after its ' = '
bodyOfFirstLine(declared) ==
    LET line == declared.text[1]
        eq == CHOOSE k \in DOMAIN line :
                /\ line[k] = Kw(" = ")
                /\ \A j \in 1..(k - 1) : line[j] # Kw(" = ")
    IN  SubSeq(line, eq + 1, Len(line))

\* the body of the declaration is a numeric-indexed map of unknown shape
isUnknownMapDeclaration(declared) ==
    /\ Len(declared.text) = 1
    /\ bodyOfFirstLine(declared)
         \in { << Kw("Record<number, unknown>") >>,
               << Kw("Record<number, unknown>"), Kw(";") >> }

\* the lines of a text that begin a declaration
declarationLines(text) ==
    { l \in DOMAIN text : startsWithAt(text[l], 1, <<Kw("export type ")>>) }

timesIn(declareds, declared) ==
    Cardinality({ j \in DOMAIN declareds : declareds[j] = declared })

\* C23: of the declarations collected, those whose body is a numeric-indexed
\* map of unknown shape are not in the text returned, and every other one is
\* in it once for each time it was collected, a declaration with a member
\* that is a numeric-indexed map of strings among them.
C23_OnlyUnknownMapsDropped ==
    \A i \in DOMAIN flattened :
        LET collected == flattened[i].collector.typeStrings
        IN  /\ \A j \in DOMAIN collected :
                  timesIn(flattened[i].declarations, collected[j])
                    = IF isUnknownMapDeclaration(collected[j]) THEN 0
                      ELSE timesIn(collected, collected[j])
            /\ Cardinality(declarationLines(flattened[i].text))
                 = Cardinality({ j \in DOMAIN collected :
                                   ~isUnknownMapDeclaration(collected[j]) })

\* the names under which flattening i flattened the entity a nested path
\* names: an enum or a composite type it collected, or an operation of a
\* table or view of its schema
namesFlattenedFor(i, tok) ==
    LET collector == flattened[i].collector
        source == transformedSourceFile(sourceText)
    IN  { collector.enumNames[k].formattedName :
            k \in { k \in DOMAIN collector.enumNames :
                      /\ tok.cat = KeyEnums /\ tok.op = <<>>
                      /\ collector.enumNames[k].name = tok.name
                      /\ tok.schema = IF collector.enumNames[k].schema # <<>>
                                      THEN collector.enumNames[k].schema
                                      ELSE flattened[i].schema } }
        \cup
        { collector.compositeTypeNames[k].formattedName :
            k \in { k \in DOMAIN collector.compositeTypeNames :
                      /\ tok.cat = KeyCompositeTypes /\ tok.op = <<>>
                      /\ collector.compositeTypeNames[k].name = tok.name
                      /\ tok.schema = flattened[i].schema } }
        \cup
        { formatName(opts.namingConfig.tableOperationPattern,
                     tablePlaceholders(tok.schema, tok.name, tok.op),
                     opts.namingConfig) :
            n \in { n \in DOMAIN source.schemas :
                      /\ tok.cat \in {KeyTables, KeyViews}
                      /\ tok.schema = flattened[i].schema
                      /\ source.schemas[n].name = tok.schema
                      /\ \E m \in DOMAIN source.schemas[n].members :
                            /\ source.schemas[n].members[m].key = tok.cat
                            /\ \E e \in DOMAIN source.schemas[n].members[m].entries :
                                  /\ source.schemas[n].members[m].entries[e].name
                                       = tok.name
                                  /\ \E o \in DOMAIN
                                        source.schemas[n].members[m].entries[e].ops :
                                        LET op == source.schemas[n].members[m]
                                                    .entries[e].ops[o]
                                        IN  /\ op.name = tok.op
                                            /\ op.type.kind
                                                 \in {"TypeLiteral", "TupleType"} } }

\* a token with the nested path of a flattened entity replaced by its name
withPathReplaced(i, tok) ==
    IF tok.t = "ref" /\ namesFlattenedFor(i, tok) # {}
    THEN Ident(CHOOSE n \in namesFlattenedFor(i, tok) : TRUE)
    ELSE << tok >>

\* the declarations flattening i kept, joined as formatOutput joins them
joinedDeclarations(i) ==
    joinSemicolonNewline(
        textsOf(SelectSeq(flattened[i].declarations, isEnumString)))
    \o EmptyText
    \o joinSemicolonNewline(
        textsOf(SelectSeq(flattened[i].declarations, isOtherString)))

\* C24: the text returned is the text of the declarations with every nested
\* path of a flattened entity, in either quote style and wherever it is on
\* its line, replaced by the name of the entity, and with every other
\* nested path as it was written.
C24_PathsOfFlattenedEntitiesReplaced ==
    \A i \in DOMAIN flattened :
        LET joined == joinedDeclarations(i)
        IN  flattened[i].text
              = Array([l \in DOMAIN joined |->
                    joinParts(Array([k \in DOMAIN joined[l] |->
                        withPathReplaced(i, joined[l][k])]))])

\* a character an identifier may have
isIdentifierChar(c) == IsAlnum(c) \/ c \in {"_", "$"}

\* the name has a character no identifier may have
hasOtherThanIdentifierChars(nm) == \E k \in DOMAIN nm : ~isIdentifierChar(nm[k])

\* the operations of the tables and views and the enums of a schema: the
\* name of the entity, the name of its declaration and its validator name
\* as the template gives it
namedEntities(schemaNode) ==
    UNION { UNION {
        IF schemaNode.members[m].key \in {KeyTables, KeyViews}
        THEN { [entity |-> schemaNode.members[m].entries[e].name,
                typeName |->
                    formatName(opts.namingConfig.tableOperationPattern,
                        tablePlaceholders(schemaNode.name,
                            schemaNode.members[m].entries[e].name,
                            schemaNode.members[m].entries[e].ops[o].name),
                        opts.namingConfig),
                formatted |->
                    formatName(opts.namingConfig.tableSchemaPattern,
                        tablePlaceholders(schemaNode.name,
                            schemaNode.members[m].entries[e].name,
                            schemaNode.members[m].entries[e].ops[o].name),
                        opts.namingConfig)] :
                 o \in DOMAIN schemaNode.members[m].entries[e].ops }
        ELSE { [entity |-> schemaNode.members[m].entries[e].name,
                typeName |->
                    formatName(opts.namingConfig.enumPattern,
                        namePlaceholders(schemaNode.name,
                            schemaNode.members[m].entries[e].name),
                        opts.namingConfig),
                formatted |->
                    formatName(opts.namingConfig.enumSchemaPattern,
                        namePlaceholders(schemaNode.name,
                            schemaNode.members[m].entries[e].name),
                        opts.namingConfig)] } :
        e \in DOMAIN schemaNode.members[m].entries } :
        m \in { m \in DOMAIN schemaNode.members :
                  schemaNode.members[m].key \in {KeyTables, KeyViews, KeyEnums} } }

\* C25: the validator name collected for an operation of a table or view or
\* for an enum is derived with the separators preserved when the name of the
\* table, view or enum has a character no identifier may have, and in the
\* default lower-camel-case mode when it has none, whatever the template of
\* the validator names is.
C25_PreserveModeByEntityName ==
    \A i \in DOMAIN flattened :
        \A n \in DOMAIN sourceText.schemas :
            sourceText.schemas[n].name = flattened[i].schema =>
                \A entity \in namedEntities(sourceText.schemas[n]) :
                    \A k \in DOMAIN flattened[i].collector.mappings :
                        flattened[i].collector.mappings[k].typeName
                          = entity.typeName =>
                            flattened[i].collector.mappings[k].schemaName
                              = toSchemaVariableName(entity.formatted,
                                    hasOtherThanIdentifierChars(entity.entity))

\* C26: in the type-inference source generateContent has named, the alias
\* of a type whose name has a character other than a letter or a digit has
\* exactly that name, and the alias of a type whose name has only letters
\* and digits has the name the type-name transformer gives it
C26_PunctuatedKeptOthersTransformed ==
    typesPc = "named" =>
        \A k \in DOMAIN typeMappings :
            LET typeName == typeMappings[k].typeName
            IN  aliasOf(inferredTypes[k]) =
                    IF hasNonAlphanumeric(typeName) THEN typeName
                    ELSE defaultTypeNameTransformer(typeName)

\* the mappings of a list that have the type name given
mappingsNamed(mappings, typeName) ==
    { k \in DOMAIN mappings : mappings[k].typeName = typeName }

\* the declarations of a list that declare the name given
declarationsNamed(declareds, typeName) ==
    { j \in DOMAIN declareds : declaredName(declareds[j]) = typeName }

\* C27: a flattening with a collector gives the collector one mapping for
\* each declaration of the text it returns and no other: a name is the type
\* name of as many mappings as the text has declarations of it.
C27_OneMappingPerDeclaration ==
    \A i \in DOMAIN flattened :
        LET declareds == flattened[i].declarations
            mappings == flattened[i].collector.mappings
        IN  /\ \A j \in DOMAIN declareds :
                  Cardinality(mappingsNamed(mappings, declaredName(declareds[j])))
                    = Cardinality(declarationsNamed(declareds,
                                                    declaredName(declareds[j])))
            /\ \A k \in DOMAIN mappings :
                  declarationsNamed(declareds, mappings[k].typeName) # {}

\* the identifiers of a text, in their order: its maximal runs of word
\* characters
RECURSIVE identifiersFrom(_, _, _)
identifiersFrom(s, i, cur) ==
    LET ended == IF cur = <<>> THEN <<>> ELSE << cur >>
    IN  IF i > Len(s) THEN ended
        ELSE IF IsAlnum(s[i]) \/ s[i] = "_"
             THEN identifiersFrom(s, i + 1, Append(cur, s[i]))
             ELSE ended \o identifiersFrom(s, i + 1, <<>>)

identifiers(s) == identifiersFrom(s, 1, <<>>)

\* C28: the overrides are applied as one simultaneous substitution: the
\* validator source has after it the identifiers it had before, each one
\* that is a key replaced by the value of the key and by nothing further,
\* and two identifiers that were different keys with different values are
\* different identifiers afterwards.
C28_SimultaneousSubstitution ==
    applyPc # "schemas" =>
        LET before == identifiers(content)
            after == identifiers(applied.schemas)
        IN  /\ Len(after) = Len(before)
            /\ \A n \in DOMAIN before :
                  after[n] = IF overridesHas(contentOverrides, before[n])
                             THEN overridesGet(contentOverrides, before[n])
                             ELSE before[n]
            /\ \A n, m \in DOMAIN before :
                  ( /\ overridesHas(contentOverrides, before[n])
                    /\ overridesHas(contentOverrides, before[m])
                    /\ before[n] # before[m]
                    /\ overridesGet(contentOverrides, before[n])
                         # overridesGet(contentOverrides, before[m]) )
                  => after[n] # after[m]

\* the schemas discovery finds in the file
schemasDiscovered ==
    LET found == getAllSchemas(sourceText)
    IN  { found[i] : i \in DOMAIN found }

\* flattening i returned a declaration of its schema
declaresOfItsSchema(i) ==
    \E j \in DOMAIN flattened[i].declarations :
        /\ flattened[i].declarations[j].category # "Json"
        /\ flattened[i].declarations[j].origin = flattened[i].schema

\* C30: a schema for which a flattening of the file returned a declaration,
\* the root being a type literal, a MergeDeep invocation or an interface
\* named Database, is among the schemas discovery finds in the same file.
C30_FlattenedSchemasAreDiscovered ==
    \A i \in DOMAIN flattened :
        declaresOfItsSchema(i) => flattened[i].schema \in schemasDiscovered

\* the lines of a text that begin a declaration, in their order
declarationHeads(text) ==
    SelectSeq(text, LAMBDA line : startsWithAt(line, 1, <<Kw("export type ")>>))

\* the name on the left-hand side of a line that begins a declaration
nameOfHead(line) == declaredName([text |-> << line >>])

\* C29: the rewriting of the cross references leaves the names of the
\* declarations as they are: the text returned declares, in the order of the
\* declarations kept, the names they were formatted with, which are the type
\* names given to the collector, whatever the naming configuration and the
\* names of the entities.
C29_DeclaredNamesKept ==
    \A i \in DOMAIN flattened :
        LET heads == declarationHeads(flattened[i].text)
            declareds == flattened[i].declarations
        IN  /\ Len(heads) = Len(declareds)
            /\ \A j \in DOMAIN declareds :
                  /\ j <= Len(heads)
                       => nameOfHead(heads[j]) = declaredName(declareds[j])
                  /\ declareds[j].category # "Json"
                       => mappingsNamed(flattened[i].collector.mappings,
                                        declaredName(declareds[j])) # {}

====
